---- MODULE Spec2Model ----
(***************************************************************************)
(* A model of the evaluation-and-refinement engine of writeoff:            *)
(*   - pLimit, the concurrency limiter        (src/src/types/index.ts)     *)
(*   - judgePost and the judge waves          (src/unnamed/part_007)       *)
(*   - runFlywheel, the refinement loop       (src/src/core/flywheel.ts)   *)
(*                                                                         *)
(* JavaScript runs every callback to completion, so one action is the code *)
(* that runs between two suspension points: a call up to its first await,  *)
(* the continuation of an await, or one promise reaction (micro-task).     *)
(***************************************************************************)
EXTENDS Integers, Sequences, FiniteSets, TLC

\* ------------------------------------------------------------------ bounds
\* Tasks submitted to a stand-alone limiter.
MaxTasks == 5
\* Largest concurrency ceiling tried.
MaxConcurrency == 2
\* Largest number of judges and of posts, and of judge tasks in one wave.
MaxJudges == 2
MaxPosts == 2
MaxWaveTasks == 4
\* Largest number of judge tasks in a wave that reports its progress.
MaxProgressTasks == 3
\* Largest maxIterations and largest patience given to runFlywheel.
MaxIterations == 3
MaxPatience == 2
\* Largest maxIterations of the runs with a single judge.
MaxLongIterations == 4
\* Largest number of judgments passed to the aggregation functions.
MaxJudgments == 3
\* unifiedDiff: texts of at most MaxLines lines, at most MaxContext lines of
\* context (3 is the default)
MaxLines == 4
MaxContext == 3
\* Largest WRITEOFF_MAX_RETRIES of a generate call.
MaxRetries == 3

VARIABLES
  \* ---- pLimit closure (index.ts 581-606)
  concurrency,   \* the ceiling the limiter was built with
  activeCount,   \* let activeCount
  queue,         \* const queue: the waiting run() closures, as task ids
  \* ---- the tasks handed to limit(), in the order of the limit() calls
  phase,         \* task -> "new" | "queued" | "running" | "settled" | "resolved" | "released"
  fnResult,      \* task -> outcome of the promise fn() returned (Pending until it settles)
  promise,       \* task -> outcome of the promise limit() returned (Pending until it settles)
  submitted,     \* task ids in the order limit() was called
  started,       \* task ids in the order run() called fn()
  progress,      \* the calls of onProgress, in order: [task, status]
  waited,        \* the tasks that were pushed on the queue
  willFail,      \* stand-alone limiter: the tasks whose fn() promise rejects
  \* ---- one wave: judgePostWithMultipleJudges / judgeAllPosts (part_007 309-403)
  nJudges,       \* judges.length
  nPosts,        \* posts.length (1 for judgePostWithMultipleJudges)
  wpc,           \* "idle" | "awaiting" (await Promise.all) | "returned" | "threw"
  jstep,         \* task -> the generate() call judgePost awaits: "call1" | "call2"
  received,      \* task -> the outcomes generate() gave the task, in order
  judged,        \* the {judgments, failures} the wave returned
  aggregated,    \* the AggregatedResult[] the caller computed from them
  \* ---- runFlywheel (flywheel.ts 441-552)
  opts,          \* maxIterations, threshold, patience, minImprovement, keepBest
  fpc,           \* "idle" | "judging" (await judgePostWithMultipleJudges) |
                 \* "refining" (await refinePost) | "returned" | "threw"
  i,             \* the loop index
  iterations,    \* const iterations
  currentPost,   \* let currentPost: 0 is initialPost, k the text refinePost
                 \* returned after iteration k
  stoppedReason, \* let stoppedReason
  bestScore,     \* let bestScore
  bestIteration, \* let bestIteration
  nonImprovingCount, \* let nonImprovingCount
  session,       \* the FlywheelSession returned
  feedback,      \* the feedback text last passed to refinePost
  refined,       \* the texts passed to refinePost, in call order
  writer,        \* whether each refinePost call returned a text, in call order
  argument,      \* the argument of a function called on its own (of a
                 \* wave: whether it was given an onProgress callback)
  returnValue,   \* what that call returned or threw (and, while generate
                 \* runs, where it is)
  mode           \* the entry point that drives the run: "limit" |
                 \* "judgePostWithMultipleJudges" | "judgeAllPosts" |
                 \* "runFlywheel" | "runFlywheelOneJudge" (runFlywheel with
                 \* one judge, for runs of more iterations), or the name
                 \* of the function called on its own ("...Decimal": with
                 \* decimal scores, computed in binary64)

limVars == <<concurrency, activeCount, queue, phase, fnResult, promise,
             submitted, started, progress, waited, willFail>>

waveVars == <<nJudges, nPosts, wpc, jstep, received, judged, aggregated>>

flyVars == <<opts, fpc, i, iterations, currentPost, stoppedReason, bestScore,
             bestIteration, nonImprovingCount, session, feedback, refined, writer>>

pureVars == <<argument, returnValue>>

vars == <<limVars, waveVars, flyVars, pureVars, mode>>

\* ------------------------------------------------------------------ pLimit

\* The limiter and its tasks as one value, so that run/next/limit compose the
\* way the closures call each other.
Snap ==
  [activeCount |-> activeCount, queue |-> queue, phase |-> phase,
   started |-> started, progress |-> progress, waited |-> waited]

Commit(s) ==
  /\ activeCount' = s.activeCount
  /\ queue' = s.queue
  /\ phase' = s.phase
  /\ started' = s.started
  /\ progress' = s.progress
  /\ waited' = s.waited

\* onProgress?.(judge.friendlyName, status): the callback is an optional
\* argument of the two waves; runFlywheel passes none, and the tasks of a
\* limiter on its own have none to call.
onProgress(log, t, status) ==
  IF argument = [onProgress |-> TRUE]
    THEN Append(log, [task |-> t, status |-> status])
    ELSE log

\* const run = () => { activeCount++; fn()... }: fn() runs up to its first
\* await, which for a judge task is after onProgress(..., 'start').
run(s, t) ==
  [s EXCEPT !.activeCount = @ + 1,
            !.phase[t] = "running",
            !.started = Append(@, t),
            !.progress = onProgress(@, t, "start")]

\* A limiter that takes the last waiting task instead of the first.
nextLifo(s) ==
  LET s1 == [s EXCEPT !.activeCount = @ - 1]
      n == Len(s1.queue)
  IN  IF s1.queue = <<>>
        THEN s1
        ELSE run([s1 EXCEPT !.queue = SubSeq(@, 1, n - 1)], s1.queue[n])

\* A limiter that gives a slot back only when it hands it to a waiting task.
nextKeepsCount(s) ==
  IF s.queue = <<>>
    THEN s
    ELSE run([s EXCEPT !.activeCount = @ - 1, !.queue = Tail(@)], Head(s.queue))

\* const next = () => { activeCount--; const run = queue.shift(); if (run) run(); }
next(s) ==
  LET s1 == [s EXCEPT !.activeCount = @ - 1]
  IN  IF s1.queue = <<>>
        THEN s1
        ELSE run([s1 EXCEPT !.queue = Tail(@)], Head(s1.queue))

\* A limiter whose ceiling test is off by one.
limitOffByOne(s, t) ==
  IF s.activeCount <= concurrency
    THEN run(s, t)
    ELSE [s EXCEPT !.queue = Append(@, t),
                   !.phase[t] = "queued",
                   !.waited = @ \cup {t}]

\* if (activeCount < concurrency) run(); else queue.push(run);
limit(s, t) ==
  IF s.activeCount < concurrency
    THEN run(s, t)
    ELSE [s EXCEPT !.queue = Append(@, t),
                   !.phase[t] = "queued",
                   !.waited = @ \cup {t}]

\* The value a task's own fn() settles with: the task's identity and whether
\* it fulfilled or rejected.
Outcome(t, ok) ==
  [state |-> IF ok THEN "fulfilled" ELSE "rejected", value |-> t]

\* A promise that has not settled.
Pending == [state |-> "pending"]

\* fn().then(resolve, reject): the promise limit() returned takes fn's outcome.
thenResolve(t) == fnResult[t]

\* ------------------------------------------------------- exact arithmetic
\* Scores are JavaScript numbers. Criterion scores are integers here and the
\* averages are kept as exact fractions [num, den] in lowest terms, den > 0.

\* Op applied to the value of a, evaluated once.
Strict1(a, Op(_)) == CHOOSE r \in {Op(x) : x \in {a}} : TRUE

\* Op applied to the values of a and b, each evaluated once.
Strict2(a, b, Op(_, _)) ==
  CHOOSE r \in {Op(x[1], x[2]) : x \in {<<a, b>>}} : TRUE

Abs(x) == IF x < 0 THEN -x ELSE x

RECURSIVE Gcd(_, _)
Gcd(a, b) ==
  Strict2(a, b, LAMBDA x, y : IF y = 0 THEN x ELSE Gcd(y, x % y))

Frac(n, d) ==
  Strict2(n, d, LAMBDA x, y :
    Strict2(Gcd(Abs(x), Abs(y)), IF y < 0 THEN -1 ELSE 1, LAMBDA g, sgn :
      [num |-> sgn * (x \div g), den |-> sgn * (y \div g)]))

FromInt(n) == [num |-> n, den |-> 1]
FAdd(a, b) ==
  Strict2(a, b, LAMBDA x, y : Frac(x.num * y.den + y.num * x.den, x.den * y.den))
FSub(a, b) ==
  Strict2(a, b, LAMBDA x, y : Frac(x.num * y.den - y.num * x.den, x.den * y.den))
FMulInt(a, k) == Strict2(a, k, LAMBDA x, y : Frac(x.num * y, x.den))
FDiv(a, b) ==
  Strict2(a, b, LAMBDA x, y : Frac(x.num * y.den, x.den * y.num))
FLt(a, b) == Strict2(a, b, LAMBDA x, y : x.num * y.den < y.num * x.den)
FLe(a, b) == Strict2(a, b, LAMBDA x, y : x.num * y.den <= y.num * x.den)
FAbs(a) == Strict2(a, 0, LAMBDA x, y : [num |-> Abs(x.num), den |-> x.den])

\* ------------------------------------------------------------ the rubric
CRITERIA_WEIGHTS ==
  [narrative |-> 30, structure |-> 20, audienceFit |-> 20,
   accuracy |-> 15, aiDetection |-> 15]

\* Object.keys(CRITERIA_WEIGHTS), in insertion order.
CRITERIA_KEYS ==
  <<"narrative", "structure", "audienceFit", "accuracy", "aiDetection">>

\* ------------------------------------------------------ normalizeCriterion
\* A raw criterion name is a sequence of characters.
UpperChars ==
  <<"A", "B", "C", "D", "E", "F", "G", "H", "I", "J", "K", "L", "M",
    "N", "O", "P", "Q", "R", "S", "T", "U", "V", "W", "X", "Y", "Z">>
LowerChars ==
  <<"a", "b", "c", "d", "e", "f", "g", "h", "i", "j", "k", "l", "m",
    "n", "o", "p", "q", "r", "s", "t", "u", "v", "w", "x", "y", "z">>

toLowerCase(c) ==
  IF \E k \in DOMAIN UpperChars : UpperChars[k] = c
    THEN LowerChars[CHOOSE k \in DOMAIN UpperChars : UpperChars[k] = c]
    ELSE c

isLowerLetter(c) == \E k \in DOMAIN LowerChars : LowerChars[k] = c

\* raw.trim().toLowerCase().replace(/[^a-z]/g, '')
criterionKey(raw) ==
  SelectSeq([k \in DOMAIN raw |-> toLowerCase(raw[k])], isLowerLetter)

\* The value normalizeCriterion returns for a name it does not know.
NoCriterion == "null"

normalizeCriterion(raw) ==
  Strict1(criterionKey(raw), LAMBDA key :
    CASE key \in {<<"n","a","r","r","a","t","i","v","e">>,
                  <<"n","a","r","r","a","t","i","v","e","f","l","o","w">>,
                  <<"f","l","o","w">>} -> "narrative"
      [] key = <<"s","t","r","u","c","t","u","r","e">> -> "structure"
      [] key \in {<<"a","u","d","i","e","n","c","e","f","i","t">>,
                  <<"a","u","d","i","e","n","c","e">>} -> "audienceFit"
      [] key = <<"a","c","c","u","r","a","c","y">> -> "accuracy"
      [] key \in {<<"a","i","d","e","t","e","c","t","i","o","n">>,
                  <<"a","i">>,
                  <<"a","i","f","l","a","g">>} -> "aiDetection"
      [] OTHER -> NoCriterion)

\* ------------------------------------------------ computeOverallFromScores
\* A lookup by the position of the criterion in the rubric.
scoreOfByPosition(scores, criterion) ==
  LET at == CHOOSE k \in DOMAIN CRITERIA_KEYS : CRITERIA_KEYS[k] = criterion
  IN  IF at \in DOMAIN scores THEN scores[at].score ELSE 0

\* scoreByCriterion.get(criterion) ?? 0: the last entry of the criterion wins.
scoreOf(scores, criterion) ==
  LET hits == {k \in DOMAIN scores : scores[k].criterion = criterion}
  IN  IF hits = {} THEN 0
      ELSE scores[CHOOSE k \in hits : \A h \in hits : h <= k].score

RECURSIVE SumOver(_, _, _)
\* Sum of f[keys[k]] for k in 1..n, f a function of the criterion.
SumOver(f, keys, n) ==
  IF n = 0 THEN FromInt(0) ELSE FAdd(SumOver(f, keys, n - 1), f[keys[n]])

totalWeight ==
  SumOver([c \in DOMAIN CRITERIA_WEIGHTS |-> FromInt(CRITERIA_WEIGHTS[c])],
          CRITERIA_KEYS, Len(CRITERIA_KEYS))

\* weightedSum / totalWeight over CRITERIA_KEYS, valueOf[criterion] being
\* the score or the average of the criterion.
weightedAverage(valueOf) ==
  Strict2(valueOf, totalWeight, LAMBDA v, tw :
    Strict2([c \in DOMAIN CRITERIA_WEIGHTS |-> FMulInt(v[c], CRITERIA_WEIGHTS[c])],
            0, LAMBDA weighted, z :
      IF tw.num > 0
        THEN FDiv(SumOver(weighted, CRITERIA_KEYS, Len(CRITERIA_KEYS)), tw)
        ELSE FromInt(0)))

\* An overall that is the plain mean of the five scores.
computeOverallUnweighted(scores) ==
  Strict1(scores, LAMBDA sc :
    Frac(scoreOf(sc, "narrative") + scoreOf(sc, "structure")
           + scoreOf(sc, "audienceFit") + scoreOf(sc, "accuracy")
           + scoreOf(sc, "aiDetection"), 5))

computeOverallFromScores(scores) ==
  Strict1(scores, LAMBDA sc :
    weightedAverage([c \in DOMAIN CRITERIA_WEIGHTS |-> FromInt(scoreOf(sc, c))]))

\* --------------------------------------------- computeOverallFromJudgments
\* Sum of the scores the entries of one judgment give the criterion.
scoreSum(scores, criterion) ==
  LET hit == {k \in DOMAIN scores : scores[k].criterion = criterion}
      RECURSIVE total(_)
      total(S) == IF S = {} THEN 0
                  ELSE LET k == CHOOSE x \in S : TRUE
                       IN  scores[k].score + total(S \ {k})
  IN  total(hit)

\* Sums that count the last judgment for all.
sumsOfLast(judgments, criterion, n) ==
  IF n = 0 THEN 0 ELSE n * scoreSum(judgments[n].scores, criterion)

RECURSIVE sumsOf(_, _, _)
\* sums[criterion] over the first n judgments.
sumsOf(judgments, criterion, n) ==
  IF n = 0 THEN 0
  ELSE sumsOf(judgments, criterion, n - 1) + scoreSum(judgments[n].scores, criterion)

RECURSIVE countsOfAllEntries(_, _, _)
\* Counts that take every entry of a judgment for the criterion.
countsOfAllEntries(judgments, criterion, n) ==
  IF n = 0 THEN 0
  ELSE countsOfAllEntries(judgments, criterion, n - 1) + Len(judgments[n].scores)

RECURSIVE countsOf(_, _, _)
\* counts[criterion] over the first n judgments.
countsOf(judgments, criterion, n) ==
  IF n = 0 THEN 0
  ELSE countsOf(judgments, criterion, n - 1) +
       Cardinality({k \in DOMAIN judgments[n].scores :
                      judgments[n].scores[k].criterion = criterion})

computeOverallFromJudgments(judgments) ==
  Strict1(judgments, LAMBDA js :
    IF Len(js) = 0 THEN FromInt(0)
    ELSE weightedAverage(
           [c \in DOMAIN CRITERIA_WEIGHTS |->
              Strict2(sumsOf(js, c, Len(js)), countsOf(js, c, Len(js)),
                      LAMBDA sum, count :
                        IF count # 0 THEN Frac(sum, count) ELSE FromInt(0))]))

\* ---------------------------------------------- validateAndNormalizeScores
\* A judge response is the value JSON.parse gives for the text the model
\* returned (after the code-fence extraction):
\*   json          the text parsed as JSON and the root is an object
\*   scoresIsArray record.scores is an array
\*   scores        its entries [criterion, score, scoreIsNumber, feedback]
\*                 (feedback "none" when it is not a string)
\*   overallScore, overallIsNumber
Err(msg, arg) == [ok |-> FALSE, error |-> [msg |-> msg, arg |-> arg]]

\* A pass of that loop that accepts any number as a score.
validateEntryAnyScore(raw, criterion, acc) ==
  IF criterion = NoCriterion THEN Err("unknown criterion", "criterion")
  ELSE IF criterion \in acc.seen THEN Err("duplicate criterion", criterion)
  ELSE IF ~raw.scoreIsNumber THEN Err("score must be a number", criterion)
  ELSE IF raw.feedback = "none" THEN Err("feedback must be a string", criterion)
  ELSE [ok |-> TRUE,
        seen |-> acc.seen \cup {criterion},
        scores |-> Append(acc.scores, [criterion |-> criterion, score |-> raw.score,
                                       feedback |-> raw.feedback]),
        warnings |-> acc.warnings]

\* One pass of the for loop of validateAndNormalizeScores: entry raw, with
\* the seen set, the normalized list and the warnings so far in acc.
validateEntry(raw, criterion, acc) ==
  IF criterion = NoCriterion THEN Err("unknown criterion", "criterion")
  ELSE IF criterion \in acc.seen THEN Err("duplicate criterion", criterion)
  ELSE IF ~raw.scoreIsNumber THEN Err("score must be a number", criterion)
  ELSE IF raw.score < 1 \/ raw.score > 100 THEN Err("score must be 1-100", criterion)
  ELSE IF raw.feedback = "none" THEN Err("feedback must be a string", criterion)
  ELSE [ok |-> TRUE,
        seen |-> acc.seen \cup {criterion},
        scores |-> Append(acc.scores, [criterion |-> criterion, score |-> raw.score,
                                       feedback |-> raw.feedback]),
        warnings |-> IF raw.feedback = ""
                       THEN Append(acc.warnings,
                                   [msg |-> "Empty feedback", arg |-> criterion])
                       ELSE acc.warnings]

RECURSIVE validateLoop(_, _, _)
\* The for loop of validateAndNormalizeScores from entry k on; the first
\* throw ends it.
validateLoop(input, k, acc) ==
  Strict2(input, acc, LAMBDA in, a :
    IF k > Len(in) THEN a
    ELSE Strict1(validateEntry(in[k], normalizeCriterion(in[k].criterion), a),
                 LAMBDA r : IF r.ok THEN validateLoop(in, k + 1, r) ELSE r))

\* A validation without the loop over the required criteria.
validateNoRequired(response) ==
  IF ~response.scoresIsArray THEN Err("scores must be an array", "scores")
  ELSE
    Strict1(validateLoop(response.scores, 1,
                         [ok |-> TRUE, seen |-> {}, scores |-> <<>>,
                          warnings |-> <<>>]),
            LAMBDA r :
      IF ~r.ok THEN r
      ELSE IF Len(r.scores) # Len(CRITERIA_KEYS)
        THEN Err("expected scores", "scores")
      ELSE [ok |-> TRUE, scores |-> r.scores, warnings |-> r.warnings])

validateAndNormalizeScores(response) ==
  IF ~response.scoresIsArray THEN Err("scores must be an array", "scores")
  ELSE
    Strict1(validateLoop(response.scores, 1,
                         [ok |-> TRUE, seen |-> {}, scores |-> <<>>,
                          warnings |-> <<>>]),
            LAMBDA r :
      IF ~r.ok THEN r
      ELSE Strict1({k \in DOMAIN CRITERIA_KEYS : CRITERIA_KEYS[k] \notin r.seen},
                   LAMBDA missing :
        IF missing # {}
          THEN Err("missing criterion",
                   CRITERIA_KEYS[CHOOSE k \in missing : \A m \in missing : k <= m])
        ELSE IF Len(r.scores) # Len(CRITERIA_KEYS)
          THEN Err("expected scores", "scores")
        ELSE [ok |-> TRUE, scores |-> r.scores, warnings |-> r.warnings]))

\* ---------------------------------------------------- parseJudgmentResponse
\* |overallScore - overallScoreComputed| >= 5
differsSubstantially(overallScore, overallScoreComputed) ==
  ~FLt(FAbs(FSub(FromInt(overallScore), overallScoreComputed)), FromInt(5))

parseJudgmentResponse(response, judgeModel, postModelId) ==
  Strict1(response, LAMBDA resp :
    IF ~resp.json THEN Err("Failed to parse judge response as JSON", "json")
    ELSE
      Strict1(validateAndNormalizeScores(resp), LAMBDA v :
        IF ~v.ok THEN v
        ELSE IF ~resp.overallIsNumber
          THEN Err("overallScore must be a number", "overallScore")
        ELSE IF resp.overallScore < 1 \/ resp.overallScore > 100
          THEN Err("overallScore must be 1-100", "overallScore")
        ELSE
          Strict1(computeOverallFromScores(v.scores), LAMBDA overallScoreComputed :
            [ok |-> TRUE,
             result |->
               [judgeModelId |-> judgeModel,
                postModelId |-> postModelId,
                scores |-> v.scores,
                overallScore |-> resp.overallScore,
                overallScoreComputed |-> overallScoreComputed,
                parseWarnings |->
                  IF differsSubstantially(resp.overallScore, overallScoreComputed)
                    THEN Append(v.warnings,
                                [msg |-> "Judge overallScore differs from computed",
                                 arg |-> "overallScore"])
                    ELSE v.warnings]])))

\* --------------------------------------------------------- aggregateResults
\* judgment.scores.find((s) => s.criterion === criterion): the index of the
\* first entry of the criterion, 0 when there is none.
findScore(scores, criterion) ==
  LET hits == {k \in DOMAIN scores : scores[k].criterion = criterion}
  IN  IF hits = {} THEN 0 ELSE CHOOSE k \in hits : \A h \in hits : k <= h

RECURSIVE foundTotals(_, _, _)
\* total and count of the inner loop (lines 437-443) over the first n
\* judgments of the post.
foundTotals(postJudgments, criterion, n) ==
  IF n = 0 THEN [total |-> 0, count |-> 0]
  ELSE Strict2(foundTotals(postJudgments, criterion, n - 1),
               findScore(postJudgments[n].scores, criterion),
               LAMBDA before, k :
                 IF k = 0 THEN before
                 ELSE [total |-> before.total + postJudgments[n].scores[k].score,
                       count |-> before.count + 1])

\* The callback of posts.map (lines 421-463) for one post.
aggregatePost(post, judgments) ==
  Strict1(SelectSeq(judgments, LAMBDA j : j.postModelId = post),
          LAMBDA postJudgments :
    Strict1([c \in DOMAIN CRITERIA_WEIGHTS |->
               IF Len(postJudgments) > 0
                 THEN Strict1(foundTotals(postJudgments, c, Len(postJudgments)),
                              LAMBDA t : IF t.count > 0 THEN Frac(t.total, t.count)
                                         ELSE FromInt(0))
                 ELSE FromInt(0)],
            LAMBDA averageScores :
      [postModelId |-> post,
       averageScores |-> averageScores,
       overallAverage |-> weightedAverage(averageScores),
       judgments |-> postJudgments]))

\* A sort that puts a result before the results of equal overallAverage.
sortByOverallUnstable(results, n) ==
  LET RECURSIVE place(_)
      place(k) ==
        IF k = 0 THEN <<>>
        ELSE LET sorted == place(k - 1)
                 at == Cardinality({h \in DOMAIN sorted :
                         FLt(results[k].overallAverage, sorted[h].overallAverage)})
             IN  SubSeq(sorted, 1, at) \o <<results[k]>> \o
                 SubSeq(sorted, at + 1, Len(sorted))
  IN  place(n)

RECURSIVE sortByOverall(_, _)
\* results.sort((a, b) => b.overallAverage - a.overallAverage) on the first n
\* results: descending, results of equal overallAverage in their order
\* (Array.prototype.sort is stable).
sortByOverall(results, n) ==
  IF n = 0 THEN <<>>
  ELSE Strict1(sortByOverall(results, n - 1), LAMBDA sorted :
         LET keep == {k \in DOMAIN sorted :
                        FLe(results[n].overallAverage, sorted[k].overallAverage)}
             at == Cardinality(keep)
         IN  SubSeq(sorted, 1, at) \o <<results[n]>> \o
             SubSeq(sorted, at + 1, Len(sorted)))

\* aggregateResults(posts, judgments), posts the sequence of the posts'
\* model ids.
aggregateResults(posts, judgments) ==
  Strict2(posts, judgments, LAMBDA ps, js :
    Strict1([k \in DOMAIN ps |-> aggregatePost(ps[k], js)], LAMBDA results :
      sortByOverall(results, Len(results))))

\* determineWinner(results): the model id of results[0], 0 for null.
determineWinner(results) ==
  IF Len(results) = 0 THEN 0 ELSE results[1].postModelId

\* ----------------------------------------------------- binary64 arithmetic
\* The numbers of the program are IEEE 754 binary64 values. The aggregation
\* of scores that are not integers rounds its sums, so it is also computed
\* as the program computes it: a positive value is m * 2^e, m a natural
\* number of exactly 53 binary digits (a sequence, most significant first),
\* zero is the empty m, and every operation rounds its exact result to the
\* nearest such value, ties to even. Subnormal values, infinities and NaN do
\* not arise from scores in [1,100].

\* The digits b without leading zeros.
Strip(b) ==
  LET ones == {k \in DOMAIN b : b[k] = 1}
  IN  IF ones = {} THEN <<>>
      ELSE SubSeq(b, CHOOSE k \in ones : \A h \in ones : k <= h, Len(b))

\* a + b of two naturals given by their digits. Digit k of the sum takes a
\* carry when, to its right, the nearest place where the operands agree
\* holds two ones.
BitsAdd(a, b) ==
  Strict2(<<0>> \o [k \in 1 .. Len(b) - Len(a) |-> 0] \o a,
          <<0>> \o [k \in 1 .. Len(a) - Len(b) |-> 0] \o b,
    LAMBDA pa, pb :
      Strip([k \in 1 .. Len(pa) |->
        LET carry == \E j \in k + 1 .. Len(pa) :
                       /\ pa[j] = 1
                       /\ pb[j] = 1
                       /\ \A h \in k + 1 .. j - 1 : pa[h] # pb[h]
        IN  (pa[k] + pb[k] + (IF carry THEN 1 ELSE 0)) % 2]))

\* The binary64 value nearest to n * 2^e (plus a nonzero fraction of 2^e
\* when sticky), ties to even; n is given by its digits without leading zero.
F64Round(n, e, sticky) ==
  IF n = <<>> THEN [m |-> <<>>, e |-> 0]
  ELSE IF Len(n) <= 53
    THEN [m |-> n \o [k \in 1 .. 53 - Len(n) |-> 0], e |-> e - (53 - Len(n))]
  ELSE
    LET top == SubSeq(n, 1, 53)
        rest == SubSeq(n, 54, Len(n))
        below == sticky \/ \E k \in 2 .. Len(rest) : rest[k] = 1
        up == rest[1] = 1 /\ (below \/ top[53] = 1)
    IN  Strict1(IF up THEN BitsAdd(top, <<1>>) ELSE top, LAMBDA r :
          IF Len(r) > 53
            THEN [m |-> SubSeq(r, 1, 53), e |-> e + Len(rest) + 1]
            ELSE [m |-> r, e |-> e + Len(rest)])

\* The binary64 value of the natural number n < 2^31.
F64FromInt(n) ==
  LET RECURSIVE digits(_)
      digits(v) == IF v = 0 THEN <<>> ELSE Append(digits(v \div 2), v % 2)
  IN  F64Round(digits(n), 0, FALSE)

\* x + y
F64Add(x, y) ==
  IF x.m = <<>> THEN y
  ELSE IF y.m = <<>> THEN x
  ELSE
    Strict1(IF x.e < y.e THEN x.e ELSE y.e, LAMBDA e :
      F64Round(BitsAdd(x.m \o [k \in 1 .. x.e - e |-> 0],
                       y.m \o [k \in 1 .. y.e - e |-> 0]), e, FALSE))

\* x * k for a small natural number k: the exact product is the sum of the
\* shifted copies of x.m that the binary digits of k select.
F64MulInt(x, k) ==
  LET RECURSIVE times(_, _)
      times(a, n) ==
        IF n = 0 THEN <<>>
        ELSE IF n % 2 = 1 THEN BitsAdd(a, times(Append(a, 0), n \div 2))
        ELSE times(Append(a, 0), n \div 2)
  IN  IF x.m = <<>> \/ k = 0 THEN [m |-> <<>>, e |-> 0]
      ELSE F64Round(times(x.m, k), x.e, FALSE)

\* x / d for a small natural number d > 0: x.m with ten more digits, which
\* leaves at least 55 quotient digits for the rounding, is divided in three
\* limbs of 21 digits, and a remainder makes the result sticky.
F64DivInt(x, d) ==
  LET RECURSIVE limb(_, _, _)
      \* the natural number with the digits a[lo..hi]
      limb(a, lo, hi) == IF hi < lo THEN 0 ELSE 2 * limb(a, lo, hi - 1) + a[hi]
      RECURSIVE divide(_, _)
      \* quotient digits and remainder of the first n limbs of a
      divide(a, n) ==
        IF n = 0 THEN [q |-> <<>>, r |-> 0]
        ELSE Strict1(divide(a, n - 1), LAMBDA before :
               Strict1(before.r * 2^21 + limb(a, 21 * (n - 1) + 1, 21 * n), LAMBDA v :
                 [q |-> before.q \o [k \in 1 .. 21 |-> ((v \div d) \div 2^(21 - k)) % 2],
                  r |-> v % d]))
  IN  IF x.m = <<>> THEN [m |-> <<>>, e |-> 0]
      ELSE Strict1(divide(x.m \o [k \in 1 .. 10 |-> 0], 3), LAMBDA qr :
             F64Round(Strip(qr.q), x.e - 10, qr.r # 0))

\* x < y
F64Lt(x, y) ==
  IF y.m = <<>> THEN FALSE
  ELSE IF x.m = <<>> THEN TRUE
  ELSE \/ x.e < y.e
       \/ /\ x.e = y.e
          /\ \E k \in 1 .. 53 :
               /\ x.m[k] < y.m[k]
               /\ \A h \in 1 .. k - 1 : x.m[h] = y.m[h]

\* ------------------------------------------ the aggregation in binary64
\* The decimal scores tried, in tenths: 70, 70.1, 80.2 and 90.3. A score of
\* the judgments below is the number of tenths of its decimal literal.
DecimalScores == {700, 701, 802, 903}

\* The number JSON.parse gives for the decimal literal of t tenths: the
\* binary64 value nearest to t/10.
parseDecimal == [t \in DecimalScores |-> F64DivInt(F64FromInt(t), 10)]

\* weightedSum / totalWeight over CRITERIA_KEYS, the weighted sum added up
\* in the order of CRITERIA_KEYS from 0.
weightedAverageF64(valueOf) ==
  LET RECURSIVE weightedSum(_, _)
      weightedSum(v, n) ==
        IF n = 0 THEN F64FromInt(0)
        ELSE Strict1(weightedSum(v, n - 1), LAMBDA before :
               F64Add(before, F64MulInt(v[CRITERIA_KEYS[n]],
                                        CRITERIA_WEIGHTS[CRITERIA_KEYS[n]])))
  IN  Strict1(valueOf, LAMBDA v :
        IF totalWeight.num > 0
          THEN F64DivInt(weightedSum(v, Len(CRITERIA_KEYS)), totalWeight.num)
          ELSE F64FromInt(0))

\* computeOverallFromJudgments on decimal scores: sums[criterion] takes the
\* scores in the order of the judgments and of their entries.
computeOverallFromJudgmentsF64(judgments) ==
  LET RECURSIVE addEntries(_, _, _)
      \* sums and counts after the first k of the entries of one judgment
      addEntries(acc, entries, k) ==
        IF k = 0 THEN acc
        ELSE Strict1(addEntries(acc, entries, k - 1), LAMBDA before :
               [sum |-> F64Add(before.sum, parseDecimal[entries[k].score]),
                count |-> before.count + 1])
      RECURSIVE tally(_, _, _)
      \* sums[c] and counts[c] after the first n judgments
      tally(js, c, n) ==
        IF n = 0 THEN [sum |-> F64FromInt(0), count |-> 0]
        ELSE Strict2(tally(js, c, n - 1),
                     SelectSeq(js[n].scores, LAMBDA s : s.criterion = c),
                     LAMBDA before, entries : addEntries(before, entries, Len(entries)))
  IN  Strict1(judgments, LAMBDA js :
        IF Len(js) = 0 THEN F64FromInt(0)
        ELSE weightedAverageF64(
               [c \in DOMAIN CRITERIA_WEIGHTS |->
                  Strict1(tally(js, c, Len(js)), LAMBDA t :
                    IF t.count # 0 THEN F64DivInt(t.sum, t.count)
                    ELSE F64FromInt(0))]))

\* aggregateResults on decimal scores: total takes the scores of a post in
\* the order of its judgments, and the sort compares the rounded overalls.
aggregateResultsF64(posts, judgments) ==
  LET RECURSIVE foundTotal(_, _, _)
      foundTotal(postJudgments, c, n) ==
        IF n = 0 THEN [total |-> F64FromInt(0), count |-> 0]
        ELSE Strict2(foundTotal(postJudgments, c, n - 1),
                     findScore(postJudgments[n].scores, c),
                     LAMBDA before, k :
                       IF k = 0 THEN before
                       ELSE [total |-> F64Add(before.total,
                                        parseDecimal[postJudgments[n].scores[k].score]),
                             count |-> before.count + 1])
      post(p, js) ==
        Strict1(SelectSeq(js, LAMBDA j : j.postModelId = p), LAMBDA postJudgments :
          Strict1([c \in DOMAIN CRITERIA_WEIGHTS |->
                     IF Len(postJudgments) > 0
                       THEN Strict1(foundTotal(postJudgments, c, Len(postJudgments)),
                                    LAMBDA t : IF t.count > 0
                                                 THEN F64DivInt(t.total, t.count)
                                                 ELSE F64FromInt(0))
                       ELSE F64FromInt(0)],
                  LAMBDA averageScores :
            [postModelId |-> p,
             averageScores |-> averageScores,
             overallAverage |-> weightedAverageF64(averageScores),
             judgments |-> postJudgments]))
      RECURSIVE sorted(_, _)
      sorted(results, n) ==
        IF n = 0 THEN <<>>
        ELSE Strict1(sorted(results, n - 1), LAMBDA before :
               LET at == Cardinality({k \in DOMAIN before :
                           ~F64Lt(before[k].overallAverage, results[n].overallAverage)})
               IN  SubSeq(before, 1, at) \o <<results[n]>> \o
                   SubSeq(before, at + 1, Len(before)))
  IN  Strict2(posts, judgments, LAMBDA ps, js :
        Strict1([k \in DOMAIN ps |-> post(ps[k], js)], LAMBDA results :
          sorted(results, Len(results))))

\* ------------------------------------------------- stand-alone limiter run

Tasks == 1 .. MaxTasks

\* No wave has been called.
NoResult == [judgments |-> <<>>, failures |-> <<>>, none |-> TRUE]

\* The judgments have not been aggregated.
NoAggregate == <<[none |-> TRUE]>>

NoWave ==
  /\ nJudges = 0
  /\ nPosts = 0
  /\ wpc = "idle"
  /\ jstep = <<>>
  /\ received = <<>>
  /\ judged = NoResult
  /\ aggregated = NoAggregate

\* runFlywheel has not been called.
NoSession == [none |-> TRUE]

\* No feedback has been passed to the writer.
NoFeedback == [none |-> TRUE]

\* No function is called on its own.
NoArgument == [none |-> TRUE]
NoReturn == [done |-> FALSE]

NoCall ==
  /\ argument = NoArgument
  /\ returnValue = NoReturn

NoFly ==
  /\ opts = [none |-> TRUE]
  /\ fpc = "idle"
  /\ i = 0
  /\ iterations = <<>>
  /\ currentPost = 0
  /\ stoppedReason = "max_iterations"
  /\ bestScore = FromInt(0)
  /\ bestIteration = 0
  /\ nonImprovingCount = 0
  /\ session = NoSession
  /\ feedback = NoFeedback
  /\ refined = <<>>
  /\ writer = <<>>

InitLimit ==
  /\ mode = "limit"
  /\ concurrency \in 1 .. MaxConcurrency
  /\ activeCount = 0
  /\ queue = <<>>
  /\ phase = [t \in Tasks |-> "new"]
  /\ fnResult = [t \in Tasks |-> Pending]
  /\ promise = [t \in Tasks |-> Pending]
  /\ submitted = <<>>
  /\ started = <<>>
  /\ progress = <<>>
  /\ waited = {}
  /\ willFail \in SUBSET Tasks
  /\ NoWave
  /\ NoFly
  /\ NoCall

\* A caller calls limit(fn) for the next task.
Submit ==
  /\ mode = "limit"
  /\ Len(submitted) < MaxTasks
  /\ LET t == Len(submitted) + 1
     IN  /\ submitted' = Append(submitted, t)
         /\ Commit(limit(Snap, t))
  /\ UNCHANGED <<concurrency, fnResult, promise, willFail, mode, waveVars, flyVars>>
  /\ UNCHANGED pureVars

\* The promise returned by a running task's fn() fulfils or rejects.
TaskSettle(t) ==
  /\ mode = "limit"
  /\ phase[t] = "running"
  /\ phase' = [phase EXCEPT ![t] = "settled"]
  /\ fnResult' = [fnResult EXCEPT ![t] = Outcome(t, t \notin willFail)]
  /\ UNCHANGED <<concurrency, activeCount, queue, promise, submitted, started,
                 progress, waited, willFail, mode, waveVars, flyVars>>
  /\ UNCHANGED pureVars

\* Reaction .then(resolve, reject) of a settled fn() promise.
ThenResolve(t) ==
  /\ phase[t] = "settled"
  /\ phase' = [phase EXCEPT ![t] = "resolved"]
  /\ promise' = [promise EXCEPT ![t] = thenResolve(t)]
  /\ UNCHANGED <<concurrency, activeCount, queue, fnResult, submitted, started,
                 progress, waited, willFail, mode, waveVars, flyVars>>
  /\ UNCHANGED pureVars

\* A limiter chained with .then(next): next runs after a fulfilment only.
finallyCallsOnFulfilOnly(outcome) == outcome.state = "fulfilled"

\* Whether .finally(next) calls next for an outcome (it does for both).
finallyCalls(outcome) == TRUE

\* Reaction .finally(next): frees the slot and starts the head of the queue.
FinallyNext(t) ==
  /\ phase[t] = "resolved"
  /\ LET s0 == [Snap EXCEPT !.phase[t] = "released"]
     IN  Commit(IF finallyCalls(promise[t]) THEN next(s0) ELSE s0)
  /\ UNCHANGED <<concurrency, fnResult, promise, submitted, willFail, mode,
                 waveVars, flyVars>>
  /\ UNCHANGED pureVars

NextLimit ==
  \/ Submit
  \/ \E t \in Tasks : TaskSettle(t)
  \/ \E t \in Tasks : ThenResolve(t)
  \/ \E t \in Tasks : FinallyNext(t)

SpecLimit == InitLimit /\ [][NextLimit]_vars

\* A started task's settlement or a pending promise reaction.
Progress ==
  \E t \in Tasks : TaskSettle(t) \/ ThenResolve(t) \/ FinallyNext(t)

\* Started tasks settle and promise reactions run: while one of these steps
\* is possible, one is eventually taken. Nothing obliges a caller to submit.
SpecLimitFair == SpecLimit /\ WF_vars(Progress)

\* ------------------------------------------------------------- judgePost
\* The judge and the post of task t: judgeAllPosts pushes its tasks post by
\* post and, within a post, judge by judge; judgePostWithMultipleJudges has
\* one post.
JudgeOf(t) == ((t - 1) % nJudges) + 1
PostOf(t) == ((t - 1) \div nJudges) + 1

\* Raw criterion names as judges write them.
Name(c) ==
  CASE c = "narrative" -> <<"n","a","r","r","a","t","i","v","e">>
    [] c = "structure" -> <<"S","t","r","u","c","t","u","r","e">>
    [] c = "audienceFit" -> <<"a","u","d","i","e","n","c","e","-","f","i","t">>
    [] c = "accuracy" -> <<"a","c","c","u","r","a","c","y">>
    [] c = "aiDetection" -> <<"A","I">>

Entry(c, score) ==
  [criterion |-> Name(c), score |-> score, scoreIsNumber |-> TRUE, feedback |-> "ok"]

\* A response with the five criteria scored n, s, f, a, d.
Response(n, s, f, a, d, overall) ==
  [json |-> TRUE, scoresIsArray |-> TRUE,
   scores |-> <<Entry("narrative", n), Entry("structure", s),
                Entry("audienceFit", f), Entry("accuracy", a),
                Entry("aiDetection", d)>>,
   overallScore |-> overall, overallIsNumber |-> TRUE]

RespHigh == Response(92, 92, 92, 92, 92, 92)
RespMid == Response(80, 70, 60, 90, 50, 70)
RespLow == Response(60, 60, 60, 60, 60, 75)
\* A score sheet with every criterion at x, reported as such.
Uniform(x) == Response(x, x, x, x, x, x)
\* A response that omits accuracy, and a text that is not JSON.
RespMissing == [RespMid EXCEPT !.scores = SubSeq(@, 1, 3) \o SubSeq(@, 5, 5)]
RespNotJson == [RespMid EXCEPT !.json = FALSE]

\* The texts a judge model answers with, by name.
ResponseText(name) ==
  CASE name = "high" -> RespHigh
    [] name = "mid" -> RespMid
    [] name = "low" -> RespLow
    [] name = "missing" -> RespMissing
    [] name = "notjson" -> RespNotJson
    [] name = "s60" -> Uniform(60)
    [] name = "s68" -> Uniform(68)
    [] name = "s70" -> Uniform(70)
    [] name = "s75" -> Uniform(75)

\* The answers tried in a run of entry point m: a wave called on its own
\* gets two valid answers and one that lacks a criterion, so that the repair
\* exchange happens; the judges of a refine run answer with one of two valid
\* score sheets, the single judge of the longer runs with one of four.
Responses(m) ==
  IF m = "runFlywheel"
    THEN {"high", "low"}
  ELSE IF m = "runFlywheelOneJudge"
    THEN {"s60", "s68", "s70", "s75"}
    ELSE {"high", "mid", "missing"}

\* generate(): the text of the model, or a thrown error (after its retries).
GenerateError == [msg |-> "LLM request failed", arg |-> "generate"]

GenerateOutcomes(m) == {"error"} \cup Responses(m)

\* A first step that asks for a repair when generate() itself failed.
judgePostFirstRepairsErrors(t, out) ==
  IF out = "error"
    THEN [state |-> "repair", error |-> GenerateError]
  ELSE
    Strict1(parseJudgmentResponse(ResponseText(out), JudgeOf(t), PostOf(t)),
            LAMBDA p :
      IF p.ok
        THEN [state |-> "returned", result |-> p.result]
        ELSE [state |-> "repair", error |-> p.error])

\* judgePost after its first generate() call settled with out: it returned a
\* judgment, threw, or issued the repair request.
judgePostFirst(t, out) ==
  IF out = "error"
    THEN [state |-> "thrown", error |-> GenerateError]
  ELSE
    Strict1(parseJudgmentResponse(ResponseText(out), JudgeOf(t), PostOf(t)),
            LAMBDA p :
      IF p.ok
        THEN [state |-> "returned", result |-> p.result]
        ELSE [state |-> "repair", error |-> p.error])

RepairedWarning == [msg |-> "Repaired invalid judge output", arg |-> "repair"]

\* A repair step that turns an invalid repaired answer into an empty judgment.
judgePostRepairSwallow(t, out) ==
  [state |-> "returned",
   result |-> [judgeModelId |-> JudgeOf(t), postModelId |-> PostOf(t),
               scores |-> <<>>, overallScore |-> 0,
               overallScoreComputed |-> FromInt(0),
               parseWarnings |-> <<RepairedWarning>>]]

\* judgePost after the repair generate() call settled with out.
judgePostRepair(t, out) ==
  IF out = "error"
    THEN [state |-> "thrown", error |-> GenerateError]
  ELSE
    Strict1(parseJudgmentResponse(ResponseText(out), JudgeOf(t), PostOf(t)),
            LAMBDA p :
      IF p.ok
        THEN [state |-> "returned",
              result |-> [p.result EXCEPT
                            !.parseWarnings = Append(@, RepairedWarning)]]
        ELSE [state |-> "thrown", error |-> p.error])

\* A task body without its try/catch: what judgePost throws rejects the task.
taskBodyNoCatch(t, jp) ==
  IF jp.state = "returned"
    THEN [state |-> "fulfilled", value |-> [ok |-> TRUE, result |-> jp.result]]
    ELSE [state |-> "rejected", value |-> jp.error]

\* A task body that reports 'done' whatever judgePost did.
reportedAlwaysDone(jp) == "done"

\* The status the task body reports when judgePost has returned or thrown.
reported(jp) == IF jp.state = "returned" THEN "done" ELSE "error"

\* The task body limit() runs: try { judgePost } catch { failure }; the
\* promise of the async function always fulfils. The onProgress callbacks
\* the callers pass only advance a progress bar and do not throw.
taskBody(t, jp) ==
  IF jp.state = "returned"
    THEN [state |-> "fulfilled", value |-> [ok |-> TRUE, result |-> jp.result]]
    ELSE [state |-> "fulfilled",
          value |-> [ok |-> FALSE,
                     failure |-> [judgeModelId |-> JudgeOf(t),
                                  postModelId |-> PostOf(t),
                                  error |-> jp.error]]]

\* ------------------------------------------------------------- one wave
FlyModes == {"runFlywheel", "runFlywheelOneJudge"}

WaveModes == {"judgePostWithMultipleJudges", "judgeAllPosts"} \cup FlyModes

RECURSIVE submitAll(_, _, _)
\* judges.map((judge) => limit(...)): limit() for tasks k..n, in order.
submitAll(s, k, n) ==
  Strict1(s, LAMBDA s0 : IF k > n THEN s0 ELSE submitAll(limit(s0, k), k + 1, n))

\* const limit = pLimit(...); const tasks = ...map(limit(...)); up to the
\* await Promise.all(tasks), for n tasks.
StartWave(n) ==
  /\ Commit(submitAll([activeCount |-> 0, queue |-> <<>>,
                       phase |-> [t \in 1 .. n |-> "new"],
                       started |-> <<>>, progress |-> <<>>, waited |-> {}],
                      1, n))
  /\ submitted' = [t \in 1 .. n |-> t]
  /\ fnResult' = [t \in 1 .. n |-> Pending]
  /\ promise' = [t \in 1 .. n |-> Pending]
  /\ jstep' = [t \in 1 .. n |-> "call1"]
  /\ received' = [t \in 1 .. n |-> <<>>]
  /\ judged' = NoResult
  /\ aggregated' = NoAggregate
  /\ wpc' = "awaiting"

\* The first generate() call of a running judge task settles.
FirstResponse(t, out) ==
  /\ mode \in WaveModes
  /\ phase[t] = "running"
  /\ jstep[t] = "call1"
  /\ received' = [received EXCEPT ![t] = Append(@, out)]
  /\ \E jp \in {judgePostFirst(t, out)} :
       IF jp.state = "repair"
         THEN /\ jstep' = [jstep EXCEPT ![t] = "call2"]
              /\ UNCHANGED <<phase, fnResult, progress>>
         ELSE /\ phase' = [phase EXCEPT ![t] = "settled"]
              /\ fnResult' = [fnResult EXCEPT ![t] = taskBody(t, jp)]
              /\ progress' = onProgress(progress, t, reported(jp))
              /\ UNCHANGED jstep
  /\ UNCHANGED <<concurrency, activeCount, queue, promise, submitted, started,
                 waited, willFail, nJudges, nPosts, wpc, judged, aggregated, mode,
                 flyVars>>
  /\ UNCHANGED pureVars

\* The repair generate() call of a running judge task settles.
RepairResponse(t, out) ==
  /\ mode \in WaveModes
  /\ phase[t] = "running"
  /\ jstep[t] = "call2"
  /\ received' = [received EXCEPT ![t] = Append(@, out)]
  /\ phase' = [phase EXCEPT ![t] = "settled"]
  /\ \E jp \in {judgePostRepair(t, out)} :
       /\ fnResult' = [fnResult EXCEPT ![t] = taskBody(t, jp)]
       /\ progress' = onProgress(progress, t, reported(jp))
  /\ UNCHANGED <<concurrency, activeCount, queue, promise, submitted, started,
                 waited, willFail, nJudges, nPosts, wpc, jstep, judged, aggregated, mode,
                 flyVars>>
  /\ UNCHANGED pureVars

\* A wave that stops waiting as soon as one task has settled.
anySettled ==
  \/ DOMAIN promise = {}
  \/ \E t \in DOMAIN promise : promise[t].state = "fulfilled"

\* Promise.all(tasks) is fulfilled: every task promise is, and every
\* .finally(next) reaction, queued before the await continues, has run.
allSettled ==
  \A t \in DOMAIN promise :
    promise[t].state = "fulfilled" /\ phase[t] = "released"

\* Promise.all(tasks) is rejected: some task promise is.
someRejected == \E t \in DOMAIN promise : promise[t].state = "rejected"

\* A wave that pushes each result when its task ends, in the order the
\* tasks reported their end.
collectAsCompleted(results) ==
  LET ended(e) == e.status \in {"done", "error"}
      ends == SelectSeq(progress, ended)
      byEnd == [k \in DOMAIN ends |-> results[ends[k].task]]
      okAt(r) == r.state = "fulfilled" /\ r.value.ok
      failedAt(r) == r.state = "fulfilled" /\ ~r.value.ok
      js == SelectSeq(byEnd, okAt)
      fs == SelectSeq(byEnd, failedAt)
  IN  [judgments |-> [k \in DOMAIN js |-> js[k].value.result],
       failures |-> [k \in DOMAIN fs |-> fs[k].value.failure],
       none |-> FALSE]

\* for (const r of results) { if (r.ok) judgments.push(...) else failures.push(...) }
collect(results) ==
  LET okAt(r) == r.state = "fulfilled" /\ r.value.ok
      failedAt(r) == r.state = "fulfilled" /\ ~r.value.ok
      js == SelectSeq(results, okAt)
      fs == SelectSeq(results, failedAt)
  IN  [judgments |-> [k \in DOMAIN js |-> js[k].value.result],
       failures |-> [k \in DOMAIN fs |-> fs[k].value.failure],
       none |-> FALSE]

\* The continuation of await Promise.all(tasks): the wave returns its
\* {judgments, failures}, or throws when the await threw.
WaveReturn ==
  /\ mode \in WaveModes
  /\ wpc = "awaiting"
  /\ someRejected \/ allSettled
  /\ IF someRejected
       THEN wpc' = "threw" /\ UNCHANGED judged
       ELSE wpc' = "returned" /\ judged' = collect(promise)
  /\ UNCHANGED <<limVars, nJudges, nPosts, jstep, received, aggregated, mode,
                 flyVars>>
  /\ UNCHANGED pureVars

\* The posts of the wave, by model id, in the order the caller holds them.
Posts == [p \in 1 .. nPosts |-> p]

\* The caller aggregates the judgments the wave returned:
\* aggregateResults(posts, judgments).
AggregateResults ==
  /\ mode \in {"judgePostWithMultipleJudges", "judgeAllPosts"}
  /\ wpc = "returned"
  /\ aggregated = NoAggregate
  /\ aggregated' = aggregateResults(Posts, judged.judgments)
  /\ UNCHANGED <<limVars, nJudges, nPosts, wpc, jstep, received, judged, mode,
                 flyVars>>
  /\ UNCHANGED pureVars

\* judgePostWithMultipleJudges(judges, post) is called.
JudgePostWithMultipleJudges ==
  /\ mode = "judgePostWithMultipleJudges"
  /\ wpc = "idle"
  /\ StartWave(nJudges)
  /\ UNCHANGED <<concurrency, willFail, nJudges, nPosts, mode, flyVars>>
  /\ UNCHANGED pureVars

\* judgeAllPosts(judges, posts) is called.
JudgeAllPosts ==
  /\ mode = "judgeAllPosts"
  /\ wpc = "idle"
  /\ StartWave(nPosts * nJudges)
  /\ UNCHANGED <<concurrency, willFail, nJudges, nPosts, mode, flyVars>>
  /\ UNCHANGED pureVars

InitWave ==
  /\ mode \in {"judgePostWithMultipleJudges", "judgeAllPosts"}
  /\ concurrency \in 1 .. MaxConcurrency
  /\ nJudges \in 0 .. MaxJudges
  /\ nPosts \in IF mode = "judgeAllPosts" THEN 0 .. MaxPosts ELSE {1}
  /\ nPosts * nJudges <= MaxWaveTasks
  /\ activeCount = 0
  /\ queue = <<>>
  /\ phase = <<>>
  /\ fnResult = <<>>
  /\ promise = <<>>
  /\ submitted = <<>>
  /\ started = <<>>
  /\ progress = <<>>
  /\ waited = {}
  /\ willFail = {}
  /\ wpc = "idle"
  /\ jstep = <<>>
  /\ received = <<>>
  /\ judged = NoResult
  /\ aggregated = NoAggregate
  /\ NoFly
  /\ NoCall

\* The two waves called with an onProgress callback.
InitWaveProgress ==
  /\ mode \in {"judgePostWithMultipleJudges", "judgeAllPosts"}
  /\ concurrency \in 1 .. MaxConcurrency
  /\ nJudges \in 0 .. MaxProgressTasks
  /\ nPosts \in IF mode = "judgeAllPosts" THEN 0 .. MaxPosts ELSE {1}
  /\ nPosts * nJudges <= MaxProgressTasks
  /\ activeCount = 0
  /\ queue = <<>>
  /\ phase = <<>>
  /\ fnResult = <<>>
  /\ promise = <<>>
  /\ submitted = <<>>
  /\ started = <<>>
  /\ progress = <<>>
  /\ waited = {}
  /\ willFail = {}
  /\ wpc = "idle"
  /\ jstep = <<>>
  /\ received = <<>>
  /\ judged = NoResult
  /\ aggregated = NoAggregate
  /\ NoFly
  /\ argument = [onProgress |-> TRUE]
  /\ returnValue = NoReturn

NextWave ==
  \/ JudgePostWithMultipleJudges
  \/ JudgeAllPosts
  \/ \E t \in DOMAIN phase : \E out \in GenerateOutcomes(mode) : FirstResponse(t, out)
  \/ \E t \in DOMAIN phase : \E out \in GenerateOutcomes(mode) : RepairResponse(t, out)
  \/ \E t \in DOMAIN phase : ThenResolve(t)
  \/ \E t \in DOMAIN phase : FinallyNext(t)
  \/ WaveReturn
  \/ AggregateResults

SpecWave == InitWave /\ [][NextWave]_vars

SpecWaveProgress == InitWaveProgress /\ [][NextWave]_vars

\* ------------------------------------------------ formatFeedbackForWriter
\* Number.prototype.toFixed(1) of a value >= 0, in tenths: the nearest tenth,
\* the larger one on a tie.
toFixed1(x) == (20 * x.num + x.den) \div (2 * x.den)

RECURSIVE feedbackEntries(_, _)
\* The score entries of the first n judgments in the order the two nested
\* for loops (lines 312-322) visit them, each with the name of its judge.
feedbackEntries(judgments, n) ==
  IF n = 0 THEN <<>>
  ELSE feedbackEntries(judgments, n - 1) \o
       [k \in DOMAIN judgments[n].scores |->
          [criterion |-> judgments[n].scores[k].criterion,
           score |-> judgments[n].scores[k].score,
           feedback |-> judgments[n].scores[k].feedback,
           judge |-> judgments[n].judgeModelId]]

RECURSIVE firstSeen(_, _)
\* The keys of criteriaFeedback in insertion order (Object.entries).
firstSeen(entries, n) ==
  IF n = 0 THEN <<>>
  ELSE IF \E h \in 1 .. n - 1 : entries[h].criterion = entries[n].criterion
    THEN firstSeen(entries, n - 1)
    ELSE Append(firstSeen(entries, n - 1), entries[n].criterion)

RECURSIVE entrySum(_, _)
\* data.scores.reduce((a, b) => a + b, 0)
entrySum(entries, n) ==
  IF n = 0 THEN 0 ELSE entrySum(entries, n - 1) + entries[n].score

\* The section of one criterion (lines 325-340): its title, the average to
\* one decimal, the range and the non-empty feedback lines.
feedbackSection(entries, criterion) ==
  Strict1(SelectSeq(entries, LAMBDA e : e.criterion = criterion), LAMBDA mine :
    LET said == SelectSeq(mine, LAMBDA e : e.feedback # "")
    IN  [criterion |-> criterion,
         avgScore |-> toFixed1(Frac(entrySum(mine, Len(mine)), Len(mine))),
         min |-> CHOOSE m \in {mine[k].score : k \in DOMAIN mine} :
                   \A k \in DOMAIN mine : m <= mine[k].score,
         max |-> CHOOSE m \in {mine[k].score : k \in DOMAIN mine} :
                   \A k \in DOMAIN mine : m >= mine[k].score,
         feedback |-> [k \in DOMAIN said |->
                         [judge |-> said[k].judge, text |-> said[k].feedback]]])

\* The text built at lines 302-353, as the values it prints: the overall
\* average to one decimal and the sections in order (the heading and the
\* closing request are fixed text).
formatFeedbackForWriter(judgments) ==
  Strict1(judgments, LAMBDA js :
    IF Len(js) = 0
      THEN [empty |-> TRUE, overallAvg |-> 0, sections |-> <<>>]
    ELSE
      Strict1(feedbackEntries(js, Len(js)), LAMBDA entries :
        Strict1(firstSeen(entries, Len(entries)), LAMBDA order :
          [empty |-> FALSE,
           overallAvg |-> toFixed1(computeOverallFromJudgments(js)),
           sections |-> [k \in DOMAIN order |->
                           feedbackSection(entries, order[k])]])))

\* ------------------------------------------------------------ runFlywheel
\* judged.judgments.reduce((sum, j) => sum + j.overallScore, 0) / length
RECURSIVE reportedSum(_, _)
reportedSum(judgments, n) ==
  IF n = 0 THEN 0 ELSE reportedSum(judgments, n - 1) + judgments[n].overallScore

averageScoreJudgeReported(judgments) ==
  IF Len(judgments) # 0
    THEN Frac(reportedSum(judgments, Len(judgments)), Len(judgments))
    ELSE FromInt(0)

\* A best-iteration test that compares with the bar the wrong way round.
improvesBelow(averageScore, best, minImprovement) ==
  FLt(averageScore, FAdd(best, FromInt(minImprovement)))

\* A best-iteration test that also accepts a score equal to the bar.
improvesOrEqual(averageScore, best, minImprovement) ==
  FLe(FAdd(best, FromInt(minImprovement)), averageScore)

\* if (averageScore > bestScore + minImprovement)
improves(averageScore, best, minImprovement) ==
  FLt(FAdd(best, FromInt(minImprovement)), averageScore)

\* if (averageScore >= threshold)
reachesThreshold(averageScore, threshold) == FLe(FromInt(threshold), averageScore)

\* if (patience > 0 && nonImprovingCount >= patience)
patienceExhausted(patience, count) == patience > 0 /\ count >= patience

\* The count kept through an improving iteration.
nextCountNoReset(improved, count) == count + 1

\* nonImprovingCount after the best-iteration tracking of one iteration.
nextCount(improved, count) == IF improved THEN 0 ELSE count + 1

\* The two checks with the patience check first.
stopCheckPatienceFirst(averageScore, count, o) ==
  IF patienceExhausted(o.patience, count) THEN "no_improvement"
  ELSE IF reachesThreshold(averageScore, o.threshold) THEN "threshold"
  ELSE "continue"

\* The two break checks of one iteration, in the order of the loop body.
stopCheck(averageScore, count, o) ==
  IF reachesThreshold(averageScore, o.threshold) THEN "threshold"
  ELSE IF patienceExhausted(o.patience, count) THEN "no_improvement"
  ELSE "continue"

\* A loop body that never calls refinePost.
refineGuardNever(k, maxIterations) == FALSE

\* A loop that asks for a refinement after its last iteration as well.
refineGuardAlways(k, maxIterations) == TRUE

\* if (i < maxIterations): the refine call after iteration k.
refineGuard(k, maxIterations) == k < maxIterations

\* A loop that runs one iteration beyond the ceiling.
loopTestOneMore(k, maxIterations) == k <= maxIterations + 1

\* i <= maxIterations: the loop condition.
loopTest(k, maxIterations) == k <= maxIterations

\* A return without the fallback for a bestIteration never set.
finishNoFallback(its, best, bestIt, reason, keepBest) ==
  LET n == Len(its)
      found == {k \in 1 .. n : its[k].iteration = bestIt}
      chosen == IF keepBest /\ bestIt > 0 /\ found # {}
                  THEN CHOOSE k \in found : \A m \in found : k <= m
                  ELSE n
  IN  [originalPost |-> 0,
       iterations |-> its,
       finalPost |-> IF chosen > 0 THEN its[chosen].post ELSE -1,
       finalScore |-> IF chosen > 0 THEN its[chosen].averageScore ELSE FromInt(0),
       bestScore |-> best,
       bestIteration |-> bestIt,
       stoppedReason |-> reason]

\* A final selection that ignores keepBest.
finishAlwaysLast(its, best, bestIt, reason, keepBest) ==
  LET n == Len(its)
      fallback == n > 0 /\ bestIt = 0
  IN  [originalPost |-> 0,
       iterations |-> its,
       finalPost |-> IF n > 0 THEN its[n].post ELSE -1,
       finalScore |-> IF n > 0 THEN its[n].averageScore ELSE FromInt(0),
       bestScore |-> IF fallback THEN its[n].averageScore ELSE best,
       bestIteration |-> IF fallback THEN its[n].iteration ELSE bestIt,
       stoppedReason |-> reason]

\* Lines 517-551: the fallback for bestIteration, the chosen iteration and
\* the session returned. Text 0 is options.initialPost.
finish(its, best, bestIt, reason, keepBest) ==
  LET n == Len(its)
      fallback == n > 0 /\ bestIt = 0
      bIt == IF fallback THEN its[n].iteration ELSE bestIt
      bScore == IF fallback THEN its[n].averageScore ELSE best
      found == {k \in 1 .. n : its[k].iteration = bIt}
      chosen == IF keepBest /\ bIt > 0 /\ found # {}
                  THEN CHOOSE k \in found : \A m \in found : k <= m
                  ELSE n
  IN  [originalPost |-> 0,
       iterations |-> its,
       finalPost |-> IF chosen > 0 THEN its[chosen].post ELSE -1,
       finalScore |-> IF chosen > 0 THEN its[chosen].averageScore ELSE FromInt(0),
       bestScore |-> bScore,
       bestIteration |-> bIt,
       stoppedReason |-> reason]

\* The loop is left: lines 517-551 reassign bestIteration and bestScore (the
\* fallback) and runFlywheel returns its session.
Return(its, best, bestIt, reason) ==
  \E s \in {finish(its, best, bestIt, reason, opts.keepBest)} :
    /\ fpc' = "returned"
    /\ session' = s
    /\ bestScore' = s.bestScore
    /\ bestIteration' = s.bestIteration

\* An iteration record numbered from 0.
iterationOfZeroBased(k, post, result) ==
  [iteration |-> k - 1,
   post |-> post,
   judgments |-> result.judgments,
   judgeFailures |-> result.failures,
   averageScore |-> computeOverallFromJudgments(result.judgments),
   averageScoreJudgeReported |-> averageScoreJudgeReported(result.judgments)]

\* An iteration record whose score is the average the judges reported.
iterationOfReported(k, post, result) ==
  [iteration |-> k,
   post |-> post,
   judgments |-> result.judgments,
   judgeFailures |-> result.failures,
   averageScore |-> averageScoreJudgeReported(result.judgments),
   averageScoreJudgeReported |-> averageScoreJudgeReported(result.judgments)]

\* The iteration record pushed at lines 481-488.
iterationOf(k, post, result) ==
  [iteration |-> k,
   post |-> post,
   judgments |-> result.judgments,
   judgeFailures |-> result.failures,
   averageScore |-> computeOverallFromJudgments(result.judgments),
   averageScoreJudgeReported |-> averageScoreJudgeReported(result.judgments)]

\* runFlywheel(options) is called: up to the first await.
RunFlywheel ==
  /\ mode \in FlyModes
  /\ fpc = "idle"
  /\ i' = 1
  /\ IF loopTest(1, opts.maxIterations)
       THEN /\ fpc' = "judging"
            /\ StartWave(nJudges)
            /\ UNCHANGED session
            /\ UNCHANGED <<bestScore, bestIteration>>
       ELSE /\ Return(<<>>, bestScore, bestIteration, stoppedReason)
            /\ UNCHANGED <<activeCount, queue, phase, started, progress, waited,
                           submitted,
                           fnResult, promise, jstep, received, judged, aggregated,
                           wpc>>
  /\ UNCHANGED <<concurrency, willFail, nJudges, nPosts, mode, opts, iterations,
                 currentPost, stoppedReason, nonImprovingCount, feedback, refined, writer>>
  /\ UNCHANGED pureVars

\* The continuation of await judgePostWithMultipleJudges(...): lines 475-514,
\* up to the await of refinePost or to the return.
AfterJudged ==
  /\ mode \in FlyModes
  /\ fpc = "judging"
  /\ wpc \in {"returned", "threw"}
  /\ IF wpc = "threw"
       THEN /\ fpc' = "threw"
            /\ UNCHANGED <<limVars, nJudges, nPosts, jstep, received, judged, wpc,
                           aggregated,
                           opts, i, iterations, currentPost, stoppedReason,
                           bestScore, bestIteration, nonImprovingCount, session,
                           feedback, refined, writer>>
       ELSE
         \E it \in {iterationOf(i, currentPost, judged)} :
         \E improved \in {improves(it.averageScore, bestScore, opts.minImprovement)} :
         \E count \in {nextCount(improved, nonImprovingCount)} :
         \E check \in {stopCheck(it.averageScore, count, opts)} :
         \E its \in {Append(iterations, it)} :
         \E best \in {IF improved THEN it.averageScore ELSE bestScore} :
         \E bestIt \in {IF improved THEN i ELSE bestIteration} :
           /\ iterations' = its
           /\ nonImprovingCount' = count
           /\ stoppedReason' = IF check = "continue" THEN stoppedReason ELSE check
           /\ IF check # "continue"
                THEN /\ Return(its, best, bestIt, check)
                     /\ wpc' = "idle"
                     /\ UNCHANGED <<limVars, jstep, received, judged, aggregated, i,
                                    feedback, refined, writer>>
              ELSE IF refineGuard(i, opts.maxIterations)
                THEN /\ fpc' = "refining"
                     /\ wpc' = "idle"
                     /\ feedback' = formatFeedbackForWriter(judged.judgments)
                     /\ refined' = Append(refined, currentPost)
                     /\ UNCHANGED writer
                     /\ bestScore' = best
                     /\ bestIteration' = bestIt
                     /\ UNCHANGED <<limVars, jstep, received, judged, aggregated, i,
                                    session>>
              ELSE IF loopTest(i + 1, opts.maxIterations)
                THEN /\ i' = i + 1
                     /\ fpc' = "judging"
                     /\ StartWave(nJudges)
                     /\ bestScore' = best
                     /\ bestIteration' = bestIt
                     /\ UNCHANGED <<concurrency, willFail, session, feedback,
                                    refined, writer>>
              ELSE /\ i' = i + 1
                   /\ Return(its, best, bestIt, stoppedReason)
                   /\ wpc' = "idle"
                   /\ UNCHANGED <<limVars, jstep, received, judged, aggregated,
                                  feedback, refined, writer>>
           /\ UNCHANGED <<nJudges, nPosts, opts, currentPost>>
  /\ UNCHANGED mode
  /\ UNCHANGED pureVars

\* A loop that catches what refinePost throws and goes on.
awaitThrowsNever(ok) == FALSE

\* currentPost = await refinePost(...), outside any try: the await throws
\* when the promise of refinePost is rejected.
awaitThrows(ok) == ~ok

\* The continuation of await refinePost(...): the refined text becomes the
\* current post and the loop goes on, or what refinePost threw leaves
\* runFlywheel.
RefineReturns(ok) ==
  /\ mode \in FlyModes
  /\ fpc = "refining"
  /\ writer' = Append(writer, ok)
  /\ IF awaitThrows(ok)
       THEN /\ fpc' = "threw"
            /\ UNCHANGED <<limVars, waveVars, i, currentPost, session, bestScore,
                           bestIteration>>
     ELSE
       /\ currentPost' = i
       /\ i' = i + 1
       /\ IF loopTest(i + 1, opts.maxIterations)
            THEN /\ fpc' = "judging"
                 /\ StartWave(nJudges)
                 /\ UNCHANGED <<concurrency, willFail, nJudges, nPosts, session,
                                bestScore, bestIteration>>
            ELSE /\ Return(iterations, bestScore, bestIteration, stoppedReason)
                 /\ UNCHANGED <<limVars, waveVars>>
  /\ UNCHANGED <<mode, opts, iterations, stoppedReason, nonImprovingCount,
                 feedback, refined>>
  /\ UNCHANGED pureVars

\* The options the refine command passes (refine.ts 196-223): at least one
\* judge, maxIterations >= 1, threshold in 1..100, minImprovement >= 0,
\* patience >= 0.
Thresholds == {76, 90}
MinImprovements == {0, 60}

\* runFlywheel is about to be called: no wave yet, the locals as lines
\* 456-463 set them.
FlyStart ==
  /\ nPosts = 1
  /\ activeCount = 0
  /\ queue = <<>>
  /\ phase = <<>>
  /\ fnResult = <<>>
  /\ promise = <<>>
  /\ submitted = <<>>
  /\ started = <<>>
  /\ progress = <<>>
  /\ waited = {}
  /\ willFail = {}
  /\ wpc = "idle"
  /\ jstep = <<>>
  /\ received = <<>>
  /\ judged = NoResult
  /\ aggregated = NoAggregate
  /\ fpc = "idle"
  /\ i = 0
  /\ iterations = <<>>
  /\ currentPost = 0
  /\ stoppedReason = "max_iterations"
  /\ bestScore = FromInt(0)
  /\ bestIteration = 0
  /\ nonImprovingCount = 0
  /\ session = NoSession
  /\ feedback = NoFeedback
  /\ refined = <<>>
  /\ writer = <<>>
  /\ NoCall

InitFly ==
  /\ mode = "runFlywheel"
  /\ concurrency \in 1 .. MaxConcurrency
  /\ nJudges \in 1 .. MaxJudges
  /\ opts \in [maxIterations : 1 .. MaxIterations,
               threshold : Thresholds,
               patience : 0 .. MaxPatience,
               minImprovement : MinImprovements,
               keepBest : BOOLEAN]
  /\ FlyStart

\* A refine run with one judge, whose answers are the sheets 60, 68, 70, 75.
InitFlyOneJudge ==
  /\ mode = "runFlywheelOneJudge"
  /\ concurrency = MaxConcurrency
  /\ nJudges = 1
  /\ opts \in [maxIterations : 1 .. MaxLongIterations,
               threshold : Thresholds,
               patience : 0 .. MaxPatience,
               minImprovement : MinImprovements,
               keepBest : BOOLEAN]
  /\ FlyStart

\* runFlywheel called by a program of its own: maxIterations is any number
\* (flywheel.ts 446), 0 included, which runs no iteration.
InitFlyDirect ==
  /\ mode = "runFlywheel"
  /\ concurrency = MaxConcurrency
  /\ nJudges = 1
  /\ opts \in [maxIterations : 0 .. MaxIterations,
               threshold : Thresholds,
               patience : 0 .. MaxPatience,
               minImprovement : MinImprovements,
               keepBest : BOOLEAN]
  /\ FlyStart

\* Everything that happens once runFlywheel was called.
FlyProgress ==
  \/ \E t \in DOMAIN phase : \E out \in GenerateOutcomes(mode) : FirstResponse(t, out)
  \/ \E t \in DOMAIN phase : ThenResolve(t)
  \/ \E t \in DOMAIN phase : FinallyNext(t)
  \/ WaveReturn
  \/ AfterJudged
  \/ \E ok \in BOOLEAN : RefineReturns(ok)

NextFly == RunFlywheel \/ FlyProgress

SpecFly == InitFly /\ [][NextFly]_vars

SpecFlyOneJudge == InitFlyOneJudge /\ [][NextFly]_vars

SpecFlyDirect == InitFlyDirect /\ [][NextFly]_vars

\* The waves called on their own and the refine runs together.
NextJudging ==
  \/ NextWave
  \/ RunFlywheel
  \/ AfterJudged
  \/ \E ok \in BOOLEAN : RefineReturns(ok)

SpecJudging == (InitWave \/ InitFly) /\ [][NextJudging]_vars

\* Every generate() call settles and every continuation runs.
SpecFlyFair == SpecFly /\ WF_vars(FlyProgress)

\* ------------------------------------- parseJudgmentResponse called on its own
\* The limiter is not in use.
NoLimit ==
  /\ concurrency = 1
  /\ activeCount = 0
  /\ queue = <<>>
  /\ phase = <<>>
  /\ fnResult = <<>>
  /\ promise = <<>>
  /\ submitted = <<>>
  /\ started = <<>>
  /\ progress = <<>>
  /\ waited = {}
  /\ willFail = {}

\* Criterion names as judges may write them instead: synonyms, other
\* spellings and a name outside the rubric.
AltNames ==
  {<<"f","l","o","w">>,
   <<"N","a","r","r","a","t","i","v","e"," ","F","l","o","w">>,
   <<"A","u","d","i","e","n","c","e">>,
   <<"a","c","c","u","r","a","c","y","!">>,
   <<"A","I"," ","f","l","a","g">>,
   <<"s","t","y","l","e">>}

\* The ways an answer may differ from a valid one: entry k dropped, renamed,
\* given score v, given a score that is not a number, given no or empty
\* feedback; an entry appended; the overall score set to v or to something
\* that is not a number; no scores array; a text that is not JSON.
Edits ==
  [op : {"none", "noArray", "notJson", "overallNotNumber"}, k : {0}, name : {<<>>}, v : {0}]
    \cup [op : {"drop", "scoreNotNumber", "feedbackNotString", "feedbackEmpty"},
          k : 1 .. 5, name : {<<>>}, v : {0}]
    \cup [op : {"rename"}, k : 1 .. 5, name : AltNames, v : {0}]
    \cup [op : {"score"}, k : 1 .. 5, name : {<<>>}, v : {0, 1, 100, 101}]
    \cup [op : {"append"}, k : {0}, name : AltNames, v : {50}]
    \cup [op : {"overall"}, k : {0}, name : {<<>>}, v : {0, 1, 100, 101}]

\* The answer r with edit e applied (an edit of an entry r lacks leaves r).
ApplyEdit(r, e) ==
  IF e.k > Len(r.scores) THEN r
  ELSE
    CASE e.op = "none" -> r
      [] e.op = "noArray" -> [r EXCEPT !.scoresIsArray = FALSE]
      [] e.op = "notJson" -> [r EXCEPT !.json = FALSE]
      [] e.op = "overallNotNumber" -> [r EXCEPT !.overallIsNumber = FALSE]
      [] e.op = "overall" -> [r EXCEPT !.overallScore = e.v]
      [] e.op = "drop" ->
           [r EXCEPT !.scores = SubSeq(@, 1, e.k - 1) \o SubSeq(@, e.k + 1, Len(@))]
      [] e.op = "scoreNotNumber" -> [r EXCEPT !.scores[e.k].scoreIsNumber = FALSE]
      [] e.op = "feedbackNotString" -> [r EXCEPT !.scores[e.k].feedback = "none"]
      [] e.op = "feedbackEmpty" -> [r EXCEPT !.scores[e.k].feedback = ""]
      [] e.op = "rename" -> [r EXCEPT !.scores[e.k].criterion = e.name]
      [] e.op = "score" -> [r EXCEPT !.scores[e.k].score = e.v]
      [] e.op = "append" ->
           [r EXCEPT !.scores = Append(@, [criterion |-> e.name, score |-> e.v,
                                           scoreIsNumber |-> TRUE,
                                           feedback |-> "ok"])]

\* The answers parseJudgmentResponse is called with: the valid sheet
\* 80, 70, 60, 90, 50 and what one or two edits make of it.
ParseArguments == {ApplyEdit(ApplyEdit(RespMid, e1), e2) : e1 \in Edits, e2 \in Edits}

InitParse ==
  /\ mode = "parseJudgmentResponse"
  /\ argument \in ParseArguments
  /\ returnValue = NoReturn
  /\ NoLimit
  /\ NoWave
  /\ NoFly

\* parseJudgmentResponse(response, judgeModel, postModelId) is called and
\* returns or throws.
ParseCall ==
  /\ mode = "parseJudgmentResponse"
  /\ ~returnValue.done
  /\ returnValue' = [done |-> TRUE, value |-> parseJudgmentResponse(argument, 1, 1)]
  /\ UNCHANGED <<limVars, waveVars, flyVars, mode, argument>>

SpecParse == InitParse /\ [][ParseCall]_vars

\* parseJudgmentResponse called on its own and by the judges of a wave.
SpecParsing == (InitParse \/ InitWave) /\ [][ParseCall \/ NextWave]_vars

\* ------------------------------ the aggregation functions called on their own
\* A validated scores list with the five criteria scored n, s, f, a, d.
Sheet(n, s, f, a, d) ==
  <<[criterion |-> "narrative", score |-> n, feedback |-> "ok"],
    [criterion |-> "structure", score |-> s, feedback |-> "ok"],
    [criterion |-> "audienceFit", score |-> f, feedback |-> "ok"],
    [criterion |-> "accuracy", score |-> a, feedback |-> "ok"],
    [criterion |-> "aiDetection", score |-> d, feedback |-> "ok"]>>

\* The scores tried per criterion: both ends of the range and one between.
SheetScores == {1, 50, 100}

Sheets ==
  {Sheet(n, s, f, a, d) : n \in SheetScores, s \in SheetScores, f \in SheetScores,
                          a \in SheetScores, d \in SheetScores}

\* The orders in which n entries can appear.
Orders(n) == {p \in [1 .. n -> 1 .. n] : \A a, b \in 1 .. n : p[a] = p[b] => a = b}

SheetOrders == Orders(5)

\* What is left of a list when only the entries at the positions keep stay.
Keep(list, keep) == SelectSeq(list, LAMBDA e : \E k \in keep : list[k] = e)

\* The scores lists computeOverallFromScores is called with: every order of
\* every sheet, and the sheets 80, 70, 60, 90, 50 and 100, ..., 100 with some
\* of their entries missing.
ScoresArguments ==
  {[k \in 1 .. 5 |-> sheet[p[k]]] : sheet \in Sheets, p \in SheetOrders}
    \cup {Keep(sheet, keep) : sheet \in {Sheet(80, 70, 60, 90, 50),
                                         Sheet(100, 100, 100, 100, 100)},
                              keep \in SUBSET (1 .. 5)}

\* The judgment parseJudgmentResponse returns for the named valid answer.
JudgmentOf(judge, post, name) ==
  parseJudgmentResponse(ResponseText(name), judge, post).result

\* The judgments the aggregation is called with: of post 1 or 2, with one of
\* three valid sheets, or with the sheet 80, 70, 60, 90, 50 lacking accuracy.
JudgmentChoices ==
  {JudgmentOf(1, post, name) : post \in 1 .. 2, name \in {"high", "mid", "low"}}
    \cup {[JudgmentOf(1, post, "mid") EXCEPT !.scores = Keep(@, {1, 2, 3, 5})] :
            post \in 1 .. 2}

JudgmentsArguments ==
  UNION {[1 .. n -> JudgmentChoices] : n \in 0 .. MaxJudgments}

AggregateArguments ==
  [posts : {<<>>, <<1, 2>>, <<2, 1>>}, judgments : JudgmentsArguments]

InitAggregation ==
  /\ \/ mode = "computeOverallFromScores" /\ argument \in ScoresArguments
     \/ mode = "computeOverallFromJudgments" /\ argument \in JudgmentsArguments
     \/ mode = "aggregateResults" /\ argument \in AggregateArguments
  /\ returnValue = NoReturn
  /\ NoLimit
  /\ NoWave
  /\ NoFly

\* computeOverallFromScores(scores) is called and returns.
ScoresCall ==
  /\ mode = "computeOverallFromScores"
  /\ ~returnValue.done
  /\ returnValue' = [done |-> TRUE, value |-> computeOverallFromScores(argument)]
  /\ UNCHANGED <<limVars, waveVars, flyVars, mode, argument>>

\* computeOverallFromJudgments(judgments) is called and returns.
JudgmentsCall ==
  /\ mode = "computeOverallFromJudgments"
  /\ ~returnValue.done
  /\ returnValue' = [done |-> TRUE, value |-> computeOverallFromJudgments(argument)]
  /\ UNCHANGED <<limVars, waveVars, flyVars, mode, argument>>

\* aggregateResults(posts, judgments) is called and returns.
AggregateCall ==
  /\ mode = "aggregateResults"
  /\ ~returnValue.done
  /\ returnValue' = [done |-> TRUE,
                     value |-> aggregateResults(argument.posts, argument.judgments)]
  /\ UNCHANGED <<limVars, waveVars, flyVars, mode, argument>>

\* The caller of aggregateResults passes the ranking to determineWinner
\* (generate.ts 261-262).
DetermineWinnerCall ==
  /\ mode = "aggregateResults"
  /\ returnValue.done
  /\ "winner" \notin DOMAIN returnValue
  /\ returnValue' = [done |-> TRUE, value |-> returnValue.value,
                     winner |-> determineWinner(returnValue.value)]
  /\ UNCHANGED <<limVars, waveVars, flyVars, mode, argument>>

NextAggregation == ScoresCall \/ JudgmentsCall \/ AggregateCall \/ DetermineWinnerCall

SpecAggregation == InitAggregation /\ [][NextAggregation]_vars

\* -------------------------- the aggregation called with decimal scores
\* The judgments the aggregation is called with: of post 1 or 2, all five
\* criteria scored alike with one of the decimal scores, or scored 70.1,
\* 80.2, 90.3, 70, 80.2.
DecimalJudgments ==
  UNION {[1 .. n ->
            [judgeModel : {1}, postModelId : 1 .. 2,
             scores : {Sheet(t, t, t, t, t) : t \in DecimalScores}
                        \cup {Sheet(701, 802, 903, 700, 802)}]] :
         n \in 0 .. MaxJudgments}

InitAggregationF64 ==
  /\ \/ mode = "computeOverallFromJudgmentsDecimal" /\ argument \in DecimalJudgments
     \/ /\ mode = "aggregateResultsDecimal"
        /\ argument \in [posts : {<<1, 2>>}, judgments : DecimalJudgments]
  /\ returnValue = NoReturn
  /\ NoLimit
  /\ NoWave
  /\ NoFly

\* computeOverallFromJudgments(judgments) is called and returns.
JudgmentsCallF64 ==
  /\ mode = "computeOverallFromJudgmentsDecimal"
  /\ ~returnValue.done
  /\ returnValue' = [done |-> TRUE, value |-> computeOverallFromJudgmentsF64(argument)]
  /\ UNCHANGED <<limVars, waveVars, flyVars, mode, argument>>

\* aggregateResults(posts, judgments) is called and returns.
AggregateCallF64 ==
  /\ mode = "aggregateResultsDecimal"
  /\ ~returnValue.done
  /\ returnValue' = [done |-> TRUE,
                     value |-> aggregateResultsF64(argument.posts, argument.judgments)]
  /\ UNCHANGED <<limVars, waveVars, flyVars, mode, argument>>

SpecAggregationF64 ==
  InitAggregationF64 /\ [][JudgmentsCallF64 \/ AggregateCallF64]_vars

\* ------------------------------------ the options where they are assembled
\* Texts are sequences of characters; an environment variable is
\* [set, text]; a number is [kind, value] with kind "finite" (value an exact
\* fraction), "NaN", "Infinity" or "-Infinity".

\* Number.parseInt(raw, 10): leading blanks and one sign are skipped and the
\* longest run of decimal digits that follows is the value; NaN when there
\* is no digit. The result is [nan, n].
parseInt(raw) ==
  LET digits == <<"0", "1", "2", "3", "4", "5", "6", "7", "8", "9">>
      isDigit(c) == \E k \in DOMAIN digits : digits[k] = c
      blanks == CHOOSE n \in 0 .. Len(raw) :
                  /\ \A k \in 1 .. n : raw[k] = " "
                  /\ n < Len(raw) => raw[n + 1] # " "
      s == SubSeq(raw, blanks + 1, Len(raw))
      signed == s # <<>> /\ s[1] \in {"+", "-"}
      body == IF signed THEN Tail(s) ELSE s
      numeral == CHOOSE n \in 0 .. Len(body) :
               /\ \A k \in 1 .. n : isDigit(body[k])
               /\ n < Len(body) => ~isDigit(body[n + 1])
      RECURSIVE valueTo(_)
      valueTo(n) ==
        IF n = 0 THEN 0
        ELSE 10 * valueTo(n - 1)
               + (CHOOSE k \in DOMAIN digits : digits[k] = body[n]) - 1
  IN  IF numeral = 0 THEN [nan |-> TRUE, n |-> 0]
      ELSE [nan |-> FALSE,
            n |-> IF signed /\ s[1] = "-" THEN 0 - valueTo(numeral)
                  ELSE valueTo(numeral)]

\* parsePositiveIntEnv(name, defaultValue), raw the value of process.env[name].
parsePositiveIntEnv(raw, defaultValue) ==
  IF ~raw.set \/ raw.text = <<>> THEN defaultValue
  ELSE LET parsed == parseInt(raw.text)
       IN  IF ~parsed.nan /\ parsed.n > 0 THEN parsed.n ELSE defaultValue

\* getMaxConcurrency(), raw the value of WRITEOFF_MAX_CONCURRENCY.
getMaxConcurrency(raw) == parsePositiveIntEnv(raw, 5)

\* pLimit(concurrency) up to its return: it throws, or returns the limiter
\* that holds the ceiling.
pLimit(c) ==
  IF c.kind # "finite" \/ FLt(c.value, FromInt(1))
    THEN [threw |-> TRUE, error |-> Err("Invalid concurrency", "concurrency")]
    ELSE [threw |-> FALSE, concurrency |-> c]

\* The action of the refine command from the judge list to the call of
\* runFlywheel (refine.ts 196-258), o the options as commander hands them
\* over with the judge list already split: process.exit(1) after an error
\* message, or the options runFlywheel is called with. The file, the writer,
\* --min-improvement, --diff-context and --mode are held valid.
createRefineCommand(o) ==
  LET maxIterations == parseInt(o.maxIterations)
      threshold == parseInt(o.threshold)
      patience == parseInt(o.patience)
      exit(msg) == [exit |-> TRUE, error |-> msg]
  IN  IF o.judges = 0 THEN exit("No judge models configured")
      ELSE IF maxIterations.nan \/ maxIterations.n < 1
        THEN exit("--max-iterations must be a positive integer")
      ELSE IF threshold.nan \/ threshold.n < 1 \/ threshold.n > 100
        THEN exit("--threshold must be an integer between 1 and 100")
      ELSE IF patience.nan \/ patience.n < 0
        THEN exit("--patience must be a non-negative integer")
      ELSE [exit |-> FALSE,
            options |-> [judgeModels |-> o.judges,
                         maxIterations |-> maxIterations.n,
                         threshold |-> threshold.n,
                         patience |-> patience.n]]

\* The calls tried: WRITEOFF_MAX_CONCURRENCY unset, empty, "8", "0", "-3",
\* "abc", "1.5", " 2"; the ceilings -1, 0, 1/2, 1, 3/2, 2, 5/2, NaN and the
\* infinities; refine with 0..2 judges and option texts in and out of range.
InitConfig ==
  /\ \/ /\ mode = "getMaxConcurrency"
        /\ argument \in {[set |-> FALSE, text |-> <<>>]}
             \cup [set : {TRUE},
                   text : {<<>>, <<"8">>, <<"0">>, <<"-", "3">>, <<"a", "b", "c">>,
                           <<"1", ".", "5">>, <<" ", "2">>}]
     \/ /\ mode = "pLimit"
        /\ argument \in [kind : {"finite"},
                         value : {Frac(n, 2) : n \in (0 - 2) .. (2 * MaxConcurrency + 1)}]
             \cup [kind : {"NaN", "Infinity", "-Infinity"}, value : {FromInt(0)}]
     \/ /\ mode = "createRefineCommand"
        /\ argument \in
             [judges : 0 .. MaxJudges,
              maxIterations : {<<"3">>, <<"0">>, <<"x">>},
              threshold : {<<"1">>, <<"8", "0">>, <<"1", "0", "0">>, <<"0">>,
                           <<"1", "0", "1">>, <<"-", "5">>, <<"a", "b", "c">>},
              patience : {<<"0">>, <<"2">>, <<"-", "1">>, <<"a", "b", "c">>}]
  /\ returnValue = NoReturn
  /\ NoLimit
  /\ NoWave
  /\ NoFly

\* judgePostWithMultipleJudges and judgeAllPosts build their limiter:
\* pLimit(getMaxConcurrency()) (part_007 314, 361).
GetMaxConcurrencyCall ==
  /\ mode = "getMaxConcurrency"
  /\ ~returnValue.done
  /\ returnValue' =
       [done |-> TRUE,
        value |-> pLimit([kind |-> "finite",
                          value |-> FromInt(getMaxConcurrency(argument))])]
  /\ UNCHANGED <<limVars, waveVars, flyVars, mode, argument>>

\* pLimit(concurrency) is called and returns or throws.
PLimitCall ==
  /\ mode = "pLimit"
  /\ ~returnValue.done
  /\ returnValue' = [done |-> TRUE, value |-> pLimit(argument)]
  /\ UNCHANGED <<limVars, waveVars, flyVars, mode, argument>>

\* The refine command assembles the options of runFlywheel.
CreateRefineCommandCall ==
  /\ mode = "createRefineCommand"
  /\ ~returnValue.done
  /\ returnValue' = [done |-> TRUE, value |-> createRefineCommand(argument)]
  /\ UNCHANGED <<limVars, waveVars, flyVars, mode, argument>>

SpecConfig ==
  InitConfig /\ [][GetMaxConcurrencyCall \/ PLimitCall \/ CreateRefineCommandCall]_vars

\* ------------------------------------------------------------- unifiedDiff
\* A text is the sequence of its lines, as splitLines gives it (never empty:
\* the empty text is one empty line); a Map<number, number> is a function on
\* the keys that were set.

\* backtrack(trace, a, b). a[x - 1] and b[y - 1] of the source are a[x] and
\* b[y] here; an index outside the array gives undefined.
backtrack(trace, a, b) ==
  LET at(lines, k) == IF k \in DOMAIN lines THEN lines[k] ELSE "undefined"
      get(v, k, otherwise) == IF k \in DOMAIN v THEN v[k] ELSE otherwise
      RECURSIVE equals(_, _)
      \* the equal edits pushed while x > prevX && y > prevY, from x down
      equals(x, count) ==
        IF count = 0 THEN <<>>
        ELSE <<[type |-> "equal", line |-> at(a, x)]>> \o equals(x - 1, count - 1)
      RECURSIVE loop(_, _, _, _)
      loop(d, x, y, edits) ==
        LET v == trace[d + 1]
            k == x - y
            down == k = 0 - d
            up == k = d
            prevK == IF down \/ (~up /\ get(v, k - 1, 0 - 1) < get(v, k + 1, 0 - 1))
                       THEN k + 1 ELSE k - 1
            prevX == get(v, prevK, 0)
            prevY == prevX - prevK
            count == IF x > prevX /\ y > prevY
                       THEN (IF x - prevX < y - prevY THEN x - prevX ELSE y - prevY)
                       ELSE 0
            x1 == x - count
            y1 == y - count
            pushed == edits \o equals(x, count)
        IN  IF d = 0 THEN pushed
            ELSE IF x1 = prevX
              THEN Strict1(Append(pushed, [type |-> "insert", line |-> at(b, y1)]),
                           LAMBDA e : loop(d - 1, x1, y1 - 1, e))
              ELSE Strict1(Append(pushed, [type |-> "delete", line |-> at(a, x1)]),
                           LAMBDA e : loop(d - 1, x1 - 1, y1, e))
      reversed(edits) == [h \in DOMAIN edits |-> edits[Len(edits) + 1 - h]]
  IN  IF Len(trace) = 0 THEN <<>>
      ELSE reversed(loop(Len(trace) - 1, Len(a), Len(b), <<>>))

\* A diff that deletes every line of a and then inserts every line of b.
myersDiffWholeFile(a, b) ==
  [h \in DOMAIN a |-> [type |-> "delete", line |-> a[h]]]
    \o [h \in DOMAIN b |-> [type |-> "insert", line |-> b[h]]]

\* myersDiff(a, b): x and y count the lines of a and b passed, so that a[x]
\* of the source is a[x + 1] here.
myersDiff(a, b) ==
  LET n == Len(a)
      m == Len(b)
      get(v, k, otherwise) == IF k \in DOMAIN v THEN v[k] ELSE otherwise
      RECURSIVE snake(_, _)
      snake(x, y) == IF x < n /\ y < m /\ a[x + 1] = b[y + 1]
                       THEN snake(x + 1, y + 1) ELSE x
      RECURSIVE diagonals(_, _, _)
      \* the loop over k of round d, from k on
      diagonals(v, d, k) ==
        IF k > d THEN [found |-> FALSE, v |-> v]
        ELSE LET down == k = 0 - d
                 up == k = d
                 start == IF down \/ (~up /\ get(v, k - 1, 0 - 1) < get(v, k + 1, 0 - 1))
                            THEN get(v, k + 1, 0)
                            ELSE get(v, k - 1, 0) + 1
                 x == snake(start, start - k)
             IN  Strict1([h \in DOMAIN v \cup {k} |-> IF h = k THEN x ELSE v[h]],
                         LAMBDA set :
                           IF x >= n /\ x - k >= m THEN [found |-> TRUE, v |-> set]
                           ELSE diagonals(set, d, k + 2))
      RECURSIVE rounds(_, _, _)
      rounds(v, trace, d) ==
        IF d > n + m THEN <<>>
        ELSE Strict2(Append(trace, v), diagonals(v, d, 0 - d), LAMBDA pushed, r :
               IF r.found THEN backtrack(pushed, a, b)
               ELSE rounds(r.v, pushed, d + 1))
  IN  rounds([k \in {1} |-> 0], <<>>, 0)

\* formatRange(startLine, length): the numbers the range prints.
formatRange(startLine, length) ==
  IF length = 0 THEN <<startLine, 0>>
  ELSE IF length = 1 THEN <<startLine>>
  ELSE <<startLine, length>>

\* The hunks unifiedDiff builds from the edits (lines 508-559). Edit i of the
\* source is edits[i + 1] here.
buildHunks(edits, context) ==
  LET changeIndices == SelectSeq([h \in DOMAIN edits |-> h - 1],
                                 LAMBDA h : edits[h + 1].type # "equal")
      RECURSIVE lastOfRun(_)
      \* idx after the inner while loop that started at idx
      lastOfRun(idx) ==
        IF idx + 1 < Len(changeIndices)
             /\ changeIndices[idx + 2] <= changeIndices[idx + 1] + 1
          THEN lastOfRun(idx + 1) ELSE idx
      count(from, to, types) ==
        Cardinality({h \in from .. to : edits[h + 1].type \in types})
      prefixOf(e) == IF e.type = "equal" THEN " "
                     ELSE IF e.type = "delete" THEN "-" ELSE "+"
      hunk(first, last) ==
        LET hunkStart == IF first - context > 0 THEN first - context ELSE 0
            hunkEnd == IF last + context < Len(edits) - 1 THEN last + context
                       ELSE Len(edits) - 1
        IN  [oldStart |-> 1 + count(0, hunkStart - 1, {"equal", "delete"}),
             newStart |-> 1 + count(0, hunkStart - 1, {"equal", "insert"}),
             oldLen |-> count(hunkStart, hunkEnd, {"equal", "delete"}),
             newLen |-> count(hunkStart, hunkEnd, {"equal", "insert"}),
             lines |-> [h \in 1 .. hunkEnd - hunkStart + 1 |->
                          [prefix |-> prefixOf(edits[hunkStart + h]),
                           line |-> edits[hunkStart + h].line]]]
      RECURSIVE loop(_, _)
      loop(idx, hunks) ==
        IF idx >= Len(changeIndices) THEN hunks
        ELSE Strict1(lastOfRun(idx), LAMBDA last :
               loop(last + 1,
                    Append(hunks, hunk(changeIndices[idx + 1], changeIndices[last + 1]))))
  IN  loop(0, <<>>)

\* unifiedDiff(oldText, newText, {context}): the lines of the text it
\* returns, none for the empty string. A line is one of the two file
\* headers, a range line with the numbers of its two ranges, or a hunk line
\* with its prefix.
unifiedDiff(oldText, newText, context) ==
  Strict1(myersDiff(oldText, newText), LAMBDA edits :
    IF ~\E h \in DOMAIN edits : edits[h].type # "equal" THEN <<>>
    ELSE LET RECURSIVE render(_, _)
             render(hunks, h) ==
               IF h = 0 THEN <<[kind |-> "---", file |-> "a"], [kind |-> "+++", file |-> "b"]>>
               ELSE render(hunks, h - 1)
                      \o <<[kind |-> "@@",
                            old |-> formatRange(hunks[h].oldStart, hunks[h].oldLen),
                            new |-> formatRange(hunks[h].newStart, hunks[h].newLen)]>>
                      \o [l \in DOMAIN hunks[h].lines |->
                            [kind |-> "line", prefix |-> hunks[h].lines[l].prefix,
                             line |-> hunks[h].lines[l].line]]
         IN  Strict1(buildHunks(edits, context), LAMBDA hunks : render(hunks, Len(hunks))))

\* The texts tried: of 1 to MaxLines lines, each line one of two.
DiffTexts == UNION {[1 .. n -> {"p", "q"}] : n \in 1 .. MaxLines}

InitDiff ==
  /\ \/ mode = "myersDiff" /\ argument \in [a : DiffTexts, b : DiffTexts]
     \/ /\ mode = "unifiedDiff"
        /\ argument \in [oldText : DiffTexts, newText : DiffTexts,
                         context : 0 .. MaxContext]
  /\ returnValue = NoReturn
  /\ NoLimit
  /\ NoWave
  /\ NoFly

\* myersDiff(a, b) is called and returns.
MyersDiffCall ==
  /\ mode = "myersDiff"
  /\ ~returnValue.done
  /\ returnValue' = [done |-> TRUE, value |-> myersDiff(argument.a, argument.b)]
  /\ UNCHANGED <<limVars, waveVars, flyVars, mode, argument>>

\* unifiedDiff(oldText, newText, {context}) is called and returns.
UnifiedDiffCall ==
  /\ mode = "unifiedDiff"
  /\ ~returnValue.done
  /\ returnValue' =
       [done |-> TRUE,
        value |-> unifiedDiff(argument.oldText, argument.newText, argument.context)]
  /\ UNCHANGED <<limVars, waveVars, flyVars, mode, argument>>

SpecDiff == InitDiff /\ [][MyersDiffCall \/ UnifiedDiffCall]_vars

\* ---------------------------------------------------------------- generate
\* An error is a record with a message, a sequence of characters, and any
\* of the fields code, status and statusCode, each a number or a string.

\* A classification that takes every error for a transient one.
isRetryableErrorAny(err) == TRUE

\* isRetryableError(err), with getErrorCode and getErrorMessage.
isRetryableError(err) ==
  LET code == IF "code" \in DOMAIN err THEN err.code
              ELSE IF "status" \in DOMAIN err THEN err.status
              ELSE IF "statusCode" \in DOMAIN err THEN err.statusCode
              ELSE [undefined |-> TRUE]
      msg == [h \in DOMAIN err.message |-> toLowerCase(err.message[h])]
      includes(phrase) ==
        \E from \in 1 .. Len(msg) - Len(phrase) + 1 :
          SubSeq(msg, from, from + Len(phrase) - 1) = phrase
  IN  \/ code = [number |-> 429]
      \/ code \in {[string |-> "ETIMEDOUT"], [string |-> "ECONNRESET"],
                  [string |-> "EAI_AGAIN"]}
      \/ includes(<<"r", "a", "t", "e", " ", "l", "i", "m", "i", "t">>)
      \/ includes(<<"t", "o", "o", " ", "m", "a", "n", "y", " ", "r", "e", "q", "u", "e", "s", "t", "s">>)
      \/ includes(<<"t", "i", "m", "e", "o", "u", "t">>)
      \/ includes(<<"t", "e", "m", "p", "o", "r", "a", "r", "i", "l", "y">>)
      \/ includes(<<"o", "v", "e", "r", "l", "o", "a", "d", "e", "d">>)

\* Math.pow(2, n) for the small n >= 0 of a retry count.
RECURSIVE pow2(_)
pow2(n) == IF n = 0 THEN 1 ELSE 2 * pow2(n - 1)

\* The errors generateText is made to fail with, each with the condition it
\* stands for.
GenerateFailures ==
  {[condition |-> "rate limit",
    err |-> [statusCode |-> [number |-> 429], message |->
            <<"R", "e", "q", "u", "e", "s", "t", " ", "f", "a", "i", "l", "e", "d">>]],
   [condition |-> "rate limit",
    err |-> [message |->
            <<"R", "a", "t", "e", " ", "l", "i", "m", "i", "t", " ", "e", "x", "c", "e", "e", "d", "e", "d">>]],
   [condition |-> "timeout",
    err |-> [code |-> [string |-> "ETIMEDOUT"], message |->
            <<"c", "o", "n", "n", "e", "c", "t", " ", "E", "T", "I", "M", "E", "D", "O", "U", "T">>]],
   [condition |-> "network",
    err |-> [code |-> [string |-> "ECONNRESET"], message |->
            <<"s", "o", "c", "k", "e", "t", " ", "h", "a", "n", "g", " ", "u", "p">>]],
   [condition |-> "authentication",
    err |-> [statusCode |-> [number |-> 401], message |->
            <<"I", "n", "v", "a", "l", "i", "d", " ", "A", "P", "I", " ", "k", "e", "y">>]],
   [condition |-> "request",
    err |-> [status |-> [number |-> 400], message |->
            <<"B", "a", "d", " ", "r", "e", "q", "u", "e", "s", "t">>]]}

\* generate(config, systemPrompt, userPrompt) has not been called. The retry
\* settings are what getMaxRetries, getRetryBaseMs and getRetryMaxMs return:
\* positive integers.
InitGenerate ==
  /\ mode = "generate"
  /\ argument \in [apiKey : BOOLEAN, maxRetries : 1 .. MaxRetries,
                   baseMs : {500, 3000}, maxMs : {8000, 400}]
  /\ returnValue = NoReturn
  /\ NoLimit
  /\ NoWave
  /\ NoFly

\* generate is called: getModel throws without an API key; otherwise the
\* first generateText call is under way.
GenerateCall ==
  /\ mode = "generate"
  /\ returnValue = NoReturn
  /\ returnValue' =
       IF ~argument.apiKey
         THEN [done |-> TRUE, pc |-> "threw", attempt |-> 0, calls |-> 0,
               failures |-> <<>>, slept |-> <<>>,
               error |-> Err("API key is not set", "getModel")]
         ELSE [done |-> FALSE, pc |-> "generateText", attempt |-> 0, calls |-> 1,
               failures |-> <<>>, slept |-> <<>>]
  /\ UNCHANGED <<limVars, waveVars, flyVars, mode, argument>>

\* generateText resolves: generate returns result.text, here the text of
\* call number calls.
GenerateTextResolves ==
  /\ mode = "generate"
  /\ ~returnValue.done
  /\ returnValue # NoReturn
  /\ returnValue.pc = "generateText"
  /\ returnValue' = [returnValue EXCEPT !.done = TRUE, !.pc = "returned"]
                      @@ [text |-> <<"text", returnValue.calls>>]
  /\ UNCHANGED <<limVars, waveVars, flyVars, mode, argument>>

\* generateText rejects: the catch block throws, or starts the sleep before
\* the next attempt.
GenerateTextRejects ==
  /\ mode = "generate"
  /\ ~returnValue.done
  /\ returnValue # NoReturn
  /\ returnValue.pc = "generateText"
  /\ \E failure \in GenerateFailures :
       LET retryable == isRetryableError(failure.err)
           attempt == returnValue.attempt
           exp == IF argument.maxMs < argument.baseMs * pow2(attempt)
                    THEN argument.maxMs ELSE argument.baseMs * pow2(attempt)
           failures == Append(returnValue.failures, failure)
       IN  returnValue' =
             IF ~retryable \/ attempt >= argument.maxRetries
               THEN [returnValue EXCEPT !.done = TRUE, !.pc = "threw",
                                        !.failures = failures]
                      @@ [error |-> Err("LLM request failed", failure.err)]
               ELSE [returnValue EXCEPT !.pc = "sleep", !.failures = failures,
                                        !.slept = Append(@, exp)]
  /\ UNCHANGED <<limVars, waveVars, flyVars, mode, argument>>

\* The sleep ends: attempt++ and the loop calls generateText again.
GenerateSleepEnds ==
  /\ mode = "generate"
  /\ ~returnValue.done
  /\ returnValue # NoReturn
  /\ returnValue.pc = "sleep"
  /\ returnValue' = [returnValue EXCEPT !.pc = "generateText",
                                        !.attempt = @ + 1, !.calls = @ + 1]
  /\ UNCHANGED <<limVars, waveVars, flyVars, mode, argument>>

NextGenerate ==
  GenerateCall \/ GenerateTextResolves \/ GenerateTextRejects \/ GenerateSleepEnds

\* Every generateText call settles and every sleep timer fires.
SpecGenerate == InitGenerate /\ [][NextGenerate]_vars /\ WF_vars(NextGenerate)

\* ------------------------------------------------------------------ C1
\* Tasks whose fn() was called and whose limit() promise has not settled yet
\* (fn's own promise is pending, or settled with its reaction still to run).
InFlight == {t \in DOMAIN phase : phase[t] \in {"running", "settled"}}

\* C1: in every reachable state of a limiter with ceiling C >= 1 the number
\* of started and not yet settled tasks is at most C.
C1_AtMostCInFlight ==
  mode = "limit" => Cardinality(InFlight) <= concurrency

\* C1 witness: the ceiling is reached while another task waits, after both a
\* fulfilled and a rejected task released their slots.
C1_Witness ==
  /\ mode = "limit"
  /\ Cardinality(InFlight) = concurrency
  /\ queue # <<>>
  /\ \E a, b \in Tasks : /\ phase[a] = "released" /\ promise[a].state = "fulfilled"
                         /\ phase[b] = "released" /\ promise[b].state = "rejected"

\* ------------------------------------------------------------------ C2
Range(q) == {q[k] : k \in DOMAIN q}

\* The promise limit() returned for t carries t's own outcome.
SettledOwnOutcome(t) ==
  /\ t \in Range(started)
  /\ promise[t] = Outcome(t, t \notin willFail)

\* C2: provided every started task settles, every submitted task is started
\* and its limit() promise settles with the task's own outcome, whatever
\* subset of the tasks fails: no promise ever carries another outcome, and
\* time and again every task submitted so far has settled with its own.
C2_EverySubmittedSettlesOwnOutcome ==
  /\ [](\A t \in Tasks :
          promise[t] # Pending => promise[t] = Outcome(t, t \notin willFail))
  /\ []<>(\A t \in Tasks : phase[t] # "new" => SettledOwnOutcome(t))

\* C2 witness: ceiling 2, task 3 of 5 fails; tasks 1, 2, 4, 5 returned their
\* results and only task 3 reports failure, tasks 4 and 5 having waited.
C2_Witness ==
  /\ mode = "limit"
  /\ concurrency = 2
  /\ willFail = {3}
  /\ Len(submitted) = 5
  /\ {4, 5} \subseteq waited
  /\ \A t \in {1, 2, 4, 5} : promise[t] = Outcome(t, TRUE)
  /\ promise[3] = Outcome(3, FALSE)

\* ------------------------------------------------------------------ C3
\* Position of task t in the sequence q (0 when absent).
Pos(q, t) == IF t \in Range(q) THEN CHOOSE k \in DOMAIN q : q[k] = t ELSE 0

\* C3: tasks are started in submission order: a task submitted later never
\* starts before one submitted earlier, and the queue holds exactly the
\* submitted tasks not yet started, in submission order.
C3_FifoStartOrder ==
  mode = "limit" =>
    /\ \A a, b \in DOMAIN submitted :
          (a < b /\ submitted[b] \in Range(started)) =>
            /\ submitted[a] \in Range(started)
            /\ Pos(started, submitted[a]) < Pos(started, submitted[b])
    /\ queue = SubSeq(submitted, Len(started) + 1, Len(submitted))

\* C3 witness: two tasks waited in the queue together and both were started
\* afterwards, while a later submission is still waiting.
C3_Witness ==
  /\ mode = "limit"
  /\ \E a, b \in waited : a < b /\ {a, b} \subseteq Range(started)
  /\ queue # <<>>

\* ------------------------------------------------------------------ C4
\* Judgments and failures of result for judge j and post p.
JudgmentsFor(result, j, p) ==
  {k \in DOMAIN result.judgments :
     result.judgments[k].judgeModelId = j /\ result.judgments[k].postModelId = p}

FailuresFor(result, j, p) ==
  {k \in DOMAIN result.failures :
     result.failures[k].judgeModelId = j /\ result.failures[k].postModelId = p}

\* The answers parseJudgmentResponse rejects.
InvalidAnswers ==
  {out \in {"high", "mid", "low", "missing", "notjson"} :
     ~parseJudgmentResponse(ResponseText(out), 0, 0).ok}

\* An answer that parseJudgmentResponse rejects; an answer or error that
\* gives judgePost nothing to return.
Invalid(out) == out \in InvalidAnswers

Unusable(out) == out = "error" \/ Invalid(out)

\* The last generate() call of task t gave nothing usable: the judge call failed.
JudgeCallFailed(t) ==
  Len(received[t]) > 0 /\ Unusable(received[t][Len(received[t])])

\* C4: judgePostWithMultipleJudges and judgeAllPosts never raise because a
\* judge call failed, and the result they return holds exactly one entry, a
\* judgment or a failure, for every (judge, post) pair, so that
\* |judgments| + |failures| = |judges| x |posts| and every failed judge call
\* has its failure entry.
C4_NeverRaisesOneEntryPerPair ==
  /\ wpc # "threw"
  /\ wpc = "returned" =>
       /\ Len(judged.judgments) + Len(judged.failures) = nJudges * nPosts
       /\ \A j \in 1 .. nJudges : \A p \in 1 .. nPosts :
            Cardinality(JudgmentsFor(judged, j, p))
              + Cardinality(FailuresFor(judged, j, p)) = 1
       /\ \A t \in DOMAIN received :
            JudgeCallFailed(t) =>
              Cardinality(FailuresFor(judged, JudgeOf(t), PostOf(t))) = 1

\* C4 witness: judgeAllPosts returned for two judges and two posts, with a
\* failed judge call among successful ones.
C4_Witness ==
  /\ mode = "judgeAllPosts"
  /\ nJudges = 2
  /\ nPosts = 2
  /\ wpc = "returned"
  /\ Len(judged.failures) >= 1
  /\ Len(judged.judgments) >= 1
  /\ \E t \in DOMAIN received : received[t] = <<"error">>

\* ------------------------------------------------------------------ C5
\* C5: a judge task makes at most two generate() calls, the second one only
\* to repair an invalid first answer; when the repaired answer is unusable
\* too, the task yields one failure and no judgment; and whether a task
\* yields a judgment or a failure depends on its own answers only.
C5_RepairAtMostOnce ==
  \A t \in DOMAIN received :
    /\ Len(received[t]) <= 2
    /\ Len(received[t]) = 2 => Invalid(received[t][1])
    /\ jstep[t] = "call2" => (Len(received[t]) >= 1 /\ Invalid(received[t][1]))
    /\ (Len(received[t]) = 2 /\ Unusable(received[t][2])) =>
         /\ fnResult[t].state = "fulfilled"
         /\ ~fnResult[t].value.ok
    /\ wpc = "returned" =>
         /\ Cardinality(JudgmentsFor(judged, JudgeOf(t), PostOf(t)))
              = IF JudgeCallFailed(t) THEN 0 ELSE 1
         /\ Cardinality(FailuresFor(judged, JudgeOf(t), PostOf(t)))
              = IF JudgeCallFailed(t) THEN 1 ELSE 0

\* C5 witness: a wave returned in which one judge answered invalidly twice,
\* a sibling was repaired and another sibling answered validly at once.
C5_Witness ==
  /\ wpc = "returned"
  /\ \E t, u, v \in DOMAIN received :
       /\ received[t] = <<"missing", "missing">>
       /\ received[u] = <<"missing", "high">>
       /\ received[v] = <<"high">>
       /\ Cardinality(FailuresFor(judged, JudgeOf(t), PostOf(t))) = 1
       /\ Cardinality(JudgmentsFor(judged, JudgeOf(u), PostOf(u))) = 1

\* ------------------------------------------------------------------ C6
\* Every task of the wave has settled, and so has the promise limit() gave.
EveryTaskSettled ==
  \A t \in DOMAIN promise : fnResult[t] # Pending /\ promise[t] # Pending

\* C6: the wave returns its {judgments, failures} only when every task it
\* dispatched has settled, with one entry per task; while the wave of
\* iteration i is awaited no iteration i is recorded; and every recorded
\* iteration, hence every score, comes from a whole wave.
C6_NoPartialWave ==
  /\ wpc = "returned" =>
       /\ EveryTaskSettled
       /\ Len(judged.judgments) + Len(judged.failures) = Len(promise)
  /\ (fpc = "judging" /\ wpc = "awaiting") => Len(iterations) = i - 1
  /\ \A k \in DOMAIN iterations :
       /\ Len(iterations[k].judgments) + Len(iterations[k].judgeFailures) = nJudges
       /\ iterations[k].averageScore
            = computeOverallFromJudgments(iterations[k].judgments)

\* C6 witness: in the second wave of a run the second judge has settled
\* before the first, and the wave is still awaited.
C6_Witness ==
  /\ fpc = "judging"
  /\ wpc = "awaiting"
  /\ Len(iterations) = 1
  /\ nJudges = 2
  /\ fnResult[2] # Pending
  /\ fnResult[1] = Pending

\* ------------------------------------------------------------------ C7
\* A step in which a judge task is started: the wave is (still) awaited after
\* it, and the step began an iteration or added a started task.
JudgeCallStarts ==
  /\ wpc' = "awaiting"
  /\ i' # i \/ started' # started

\* C7: when a judge call of iteration i+1 starts, every task of the wave of
\* iteration i has settled and released its slot, iterations 1..i are
\* recorded, none of them met a stop condition, and the refine call after
\* iteration i has returned its text.
C7_StrictlySequential ==
  [][JudgeCallStarts =>
       /\ fpc' = "judging"
       /\ Len(iterations') = i' - 1
       /\ \A k \in DOMAIN iterations' : iterations'[k].iteration = k
       /\ currentPost' = i' - 1
       /\ stoppedReason' = "max_iterations"
       /\ \A k \in DOMAIN iterations' :
            ~reachesThreshold(iterations'[k].averageScore, opts.threshold)
       /\ i' # i =>
            /\ i' = i + 1
            /\ i >= 1 =>
                 /\ fpc = "refining"
                 /\ \A t \in DOMAIN promise :
                      /\ fnResult[t] # Pending
                      /\ promise[t] # Pending
                      /\ phase[t] = "released"]_vars

\* C7 witness: a judge task of iteration 3 is running.
C7_Witness ==
  /\ i = 3
  /\ fpc = "judging"
  /\ Len(iterations) = 2
  /\ currentPost = 2
  /\ \E t \in DOMAIN phase : phase[t] = "running"

\* ------------------------------------------------------------------ C8
\* The score of iteration k of the list its.
ScoreAt(its, k) == its[k].averageScore

RECURSIVE BestAfter(_, _, _)
\* The best score after k iterations: a score replaces the best one when it
\* exceeds it by more than minImprovement.
BestAfter(its, k, minImprovement) ==
  IF k = 0 THEN FromInt(0)
  ELSE LET best == BestAfter(its, k - 1, minImprovement)
       IN  IF FLt(FAdd(best, FromInt(minImprovement)), ScoreAt(its, k))
             THEN ScoreAt(its, k)
             ELSE best

\* Iteration k did not exceed the best score before it by more than
\* minImprovement.
NonImproving(its, k, minImprovement) ==
  ~FLt(FAdd(BestAfter(its, k - 1, minImprovement), FromInt(minImprovement)),
       ScoreAt(its, k))

RECURSIVE NonImprovingRun(_, _, _)
\* The number of consecutive non-improving iterations ending with iteration k.
NonImprovingRun(its, k, minImprovement) ==
  IF k = 0 THEN 0
  ELSE IF NonImproving(its, k, minImprovement)
    THEN NonImprovingRun(its, k - 1, minImprovement) + 1
    ELSE 0

\* The threshold condition and the patience condition at iteration k.
ThresholdAt(its, k) == FLe(FromInt(opts.threshold), ScoreAt(its, k))

PatienceAt(its, k) ==
  opts.patience > 0 /\ NonImprovingRun(its, k, opts.minImprovement) >= opts.patience

\* C8: the session runFlywheel returns has stoppedReason "threshold" exactly
\* when the score of the last executed iteration is at least the threshold,
\* also when the patience condition holds at that iteration; the reason is
\* one of the three.
C8_ThresholdExactlyWhen ==
  fpc = "returned" =>
    LET its == session.iterations
        n == Len(its)
    IN  /\ session.stoppedReason \in {"threshold", "max_iterations", "no_improvement"}
        /\ session.stoppedReason = "threshold" <=> (n > 0 /\ ThresholdAt(its, n))
        /\ (n > 0 /\ ThresholdAt(its, n) /\ PatienceAt(its, n)) =>
             session.stoppedReason = "threshold"

\* C8 witness: threshold 90, the last iteration scored 92 and was the
\* patience-th non-improving one, and the reason returned is threshold.
C8_Witness ==
  /\ fpc = "returned"
  /\ opts.threshold = 90
  /\ Len(session.iterations) = 2
  /\ ScoreAt(session.iterations, 2) = FromInt(92)
  /\ PatienceAt(session.iterations, 2)
  /\ session.stoppedReason = "threshold"

\* ------------------------------------------------------------------ C9
\* C9: nonImprovingCount is the number of consecutive most recent
\* non-improving iterations (an improving one resets it to 0); the session
\* returned has stoppedReason "no_improvement" exactly when patience > 0, the
\* last iteration scored below the threshold and that number has reached
\* patience; with patience 0 the reason never occurs.
C9_NoImprovementExactlyWhen ==
  /\ nonImprovingCount
       = NonImprovingRun(iterations, Len(iterations), opts.minImprovement)
  /\ opts.patience = 0 => stoppedReason # "no_improvement"
  /\ fpc = "returned" =>
       LET its == session.iterations
           n == Len(its)
       IN  session.stoppedReason = "no_improvement" <=>
             /\ n > 0
             /\ opts.patience > 0
             /\ ~ThresholdAt(its, n)
             /\ NonImprovingRun(its, n, opts.minImprovement) >= opts.patience

\* C9 witness: patience 2, the first iteration improved and the two after it
\* did not, and the reason returned is no_improvement.
C9_Witness ==
  /\ fpc = "returned"
  /\ opts.patience = 2
  /\ Len(session.iterations) = 3
  /\ ~NonImproving(session.iterations, 1, opts.minImprovement)
  /\ NonImprovingRun(session.iterations, 3, opts.minImprovement) = 2
  /\ session.stoppedReason = "no_improvement"

\* ------------------------------------------------------------------ C10
\* runFlywheel has returned or thrown.
Done == fpc \in {"returned", "threw"}

\* C10: a called runFlywheel whose collaborators all answer comes to an end
\* (it returns, or throws what refinePost threw); it never executes more than
\* maxIterations iterations; and the reason returned is "max_iterations"
\* exactly when maxIterations iterations were executed and neither the
\* threshold nor the patience condition held at any of them.
C10_TerminatesWithinMaxIterations ==
  /\ [](Len(iterations) <= opts.maxIterations)
  /\ [](fpc = "returned" =>
          LET its == session.iterations
              n == Len(its)
          IN  session.stoppedReason = "max_iterations" <=>
                /\ n = opts.maxIterations
                /\ \A k \in 1 .. n : ~ThresholdAt(its, k) /\ ~PatienceAt(its, k))
  /\ (fpc # "idle") ~> Done

\* C10 witness: maxIterations 3, three iterations were executed without a
\* stop condition and the reason returned is max_iterations.
C10_Witness ==
  /\ fpc = "returned"
  /\ opts.maxIterations = 3
  /\ Len(session.iterations) = 3
  /\ session.stoppedReason = "max_iterations"

\* ------------------------------------------------------------------ C11
\* A step that changes bestScore or bestIteration.
BestChanged == bestScore' # bestScore \/ bestIteration' # bestIteration

\* A step that appends an iteration whose score exceeds bestScore +
\* minImprovement and makes it the best one.
ImprovingAppend ==
  /\ Len(iterations') = Len(iterations) + 1
  /\ FLt(FAdd(bestScore, FromInt(opts.minImprovement)),
         iterations'[Len(iterations')].averageScore)
  /\ bestScore' = iterations'[Len(iterations')].averageScore
  /\ bestIteration' = iterations'[Len(iterations')].iteration

\* The step that leaves the loop with bestIteration never set, after at least
\* one iteration: the last iteration becomes the best one.
BestFallback ==
  /\ fpc' = "returned"
  /\ bestIteration = 0
  /\ Len(iterations') > 0
  /\ bestScore' = iterations'[Len(iterations')].averageScore
  /\ bestIteration' = iterations'[Len(iterations')].iteration

\* C11 as stated: bestScore and bestIteration change only in a step that
\* appends an iteration whose score strictly exceeds bestScore +
\* minImprovement; in every other step, the end of the loop included, they
\* keep their values.
C11_BestChangesOnlyOnImprovement ==
  [][BestChanged => ImprovingAppend]_vars

\* C11 amended: bestScore and bestIteration change only when a newly appended
\* iteration's score strictly exceeds bestScore + minImprovement, or when the
\* loop ends after at least one iteration with bestIteration still 0, where
\* they become the score and the index of the last iteration.
C11_BestChangesOnImprovementOrFallback ==
  [][BestChanged => (ImprovingAppend \/ BestFallback)]_vars

\* C11 witness: a run of two iterations returned, neither of which improved,
\* with the second one reported as the best and its score 60 as bestScore.
C11_Witness ==
  /\ fpc = "returned"
  /\ Len(iterations) = 2
  /\ \A k \in 1 .. 2 : NonImproving(iterations, k, opts.minImprovement)
  /\ bestIteration = 2
  /\ bestScore = FromInt(60)
  /\ session.bestIteration = 2

\* ------------------------------------------------------------------ C12
\* The scores of the iterations of the list its, in order.
ScoresOf(its) == [k \in DOMAIN its |-> its[k].averageScore]

\* C12: the session returned after at least one iteration has the text and
\* the score of the iteration at bestIteration when keepBest is set, and those
\* of the last executed iteration otherwise; for the scores 60, 75, 68, 70
\* without an early stop that is finalScore 70 without keepBest, and
\* finalScore 75 with bestIteration 2 with keepBest.
C12_FinalSelection ==
  fpc = "returned" =>
    LET its == session.iterations
        n == Len(its)
        chosen == IF opts.keepBest THEN session.bestIteration ELSE n
    IN  n > 0 =>
          /\ chosen \in 1 .. n
          /\ session.finalPost = its[chosen].post
          /\ session.finalScore = its[chosen].averageScore
          /\ (ScoresOf(its) = <<FromInt(60), FromInt(75), FromInt(68), FromInt(70)>>
                /\ session.stoppedReason = "max_iterations") =>
               IF opts.keepBest
                 THEN /\ session.finalScore = FromInt(75)
                      /\ session.bestIteration = 2
                      /\ session.finalPost = 1
                 ELSE /\ session.finalScore = FromInt(70)
                      /\ session.finalPost = 3

\* C12 witness: keepBest is set, four iterations scored 60, 75, 68, 70 without
\* an early stop, and the session has the text and the score of iteration 2.
C12_Witness ==
  /\ fpc = "returned"
  /\ opts.keepBest
  /\ opts.minImprovement = 0
  /\ ScoresOf(session.iterations)
       = <<FromInt(60), FromInt(75), FromInt(68), FromInt(70)>>
  /\ session.stoppedReason = "max_iterations"
  /\ session.finalScore = FromInt(75)
  /\ session.bestIteration = 2
  /\ session.finalPost = 1

\* ------------------------------------------------------------------ C13
\* Overall scores a judge may report in place of the one it reported.
OverallVariants == {1, 50, 100}

\* The answer out with x as its reported overallScore, all else the same.
Reported(out, x) == [ResponseText(out) EXCEPT !.overallScore = x]

\* The task that produced judgment j and the answer judgePost returned it for.
TaskOf(j) ==
  CHOOSE t \in DOMAIN received :
    JudgeOf(t) = j.judgeModelId /\ PostOf(t) = j.postModelId

AnswerOf(t) == received[t][Len(received[t])]

\* What parseJudgmentResponse makes of the answer behind each judgment of
\* the wave for each overall score its judge may report instead.
TwinParses ==
  [k \in DOMAIN judged.judgments |->
     [x \in OverallVariants |->
        parseJudgmentResponse(Reported(AnswerOf(TaskOf(judged.judgments[k])), x),
                              judged.judgments[k].judgeModelId,
                              judged.judgments[k].postModelId)]]

\* The result of the wave in the run that differs only in those reports.
Twin(parsed) ==
  [judged EXCEPT !.judgments = [k \in DOMAIN parsed |-> parsed[k].result]]

\* What one pass of the loop body of runFlywheel (lines 475-514, and 517-551
\* when the loop ends) leaves behind, apart from the reported overall scores,
\* when the wave returned result: the score of the iteration, the counters,
\* the stop reason, where the run continues, the feedback sent to the writer
\* and the final selection.
LowStep(result) ==
  Strict1(iterationOf(i, currentPost, result), LAMBDA it :
    LET improved == improves(it.averageScore, bestScore, opts.minImprovement)
        count == nextCount(improved, nonImprovingCount)
        check == stopCheck(it.averageScore, count, opts)
        best == IF improved THEN it.averageScore ELSE bestScore
        bestIt == IF improved THEN i ELSE bestIteration
        stops == check # "continue"
        reason == IF stops THEN check ELSE stoppedReason
        refines == ~stops /\ refineGuard(i, opts.maxIterations)
        ends == stops \/ (~refines /\ ~loopTest(i + 1, opts.maxIterations))
        s == finish(Append(iterations, it), best, bestIt, reason, opts.keepBest)
    IN  [score |-> it.averageScore,
         n |-> Len(iterations) + 1,
         count |-> count,
         reason |-> reason,
         bestScore |-> IF ends THEN s.bestScore ELSE best,
         bestIteration |-> IF ends THEN s.bestIteration ELSE bestIt,
         pc |-> IF ends THEN "returned" ELSE IF refines THEN "refining" ELSE "judging",
         feedback |-> IF refines THEN formatFeedbackForWriter(result.judgments)
                      ELSE feedback,
         final |-> IF ends
                     THEN [finalPost |-> s.finalPost, finalScore |-> s.finalScore,
                           stoppedReason |-> s.stoppedReason,
                           scores |-> ScoresOf(s.iterations)]
                     ELSE [none |-> TRUE]])

\* The same, read from the state a step of runFlywheel's continuation leads to.
LowAfter ==
  [score |-> iterations'[Len(iterations')].averageScore,
   n |-> Len(iterations'),
   count |-> nonImprovingCount',
   reason |-> stoppedReason',
   bestScore |-> bestScore',
   bestIteration |-> bestIteration',
   pc |-> fpc',
   feedback |-> feedback',
   final |-> IF fpc' = "returned"
               THEN [finalPost |-> session'.finalPost,
                     finalScore |-> session'.finalScore,
                     stoppedReason |-> session'.stoppedReason,
                     scores |-> ScoresOf(session'.iterations)]
               ELSE [none |-> TRUE]]

\* The ranking aggregateResults gives: the posts in order with their
\* per-criterion averages and overallAverage.
Ranking(results) ==
  [k \in DOMAIN results |->
     [postModelId |-> results[k].postModelId,
      averageScores |-> results[k].averageScores,
      overallAverage |-> results[k].overallAverage]]

\* Whatever overall scores in 1..100 the judges of a returned wave report
\* instead, their answers stay valid with the same scores, the pass of
\* runFlywheel's loop that follows comes out the same, and aggregateResults
\* gives the ranking the caller got.
TwinsAgree ==
  (wpc = "returned" /\ ~judged.none) =>
    \E parses \in {TwinParses} :
    \E step \in {IF fpc = "judging" THEN LowStep(judged) ELSE NoSession} :
      /\ \A k \in DOMAIN parses : \A x \in OverallVariants :
           /\ parses[k][x].ok
           /\ parses[k][x].result.overallScore = x
           /\ parses[k][x].result.scores = judged.judgments[k].scores
      /\ (fpc = "judging" \/ aggregated # NoAggregate) =>
           \A ov \in [DOMAIN judged.judgments -> OverallVariants] :
             \E twin \in {Twin([k \in DOMAIN parses |-> parses[k][ov[k]]])} :
               /\ fpc = "judging" => LowStep(twin) = step
               /\ aggregated # NoAggregate =>
                    Ranking(aggregateResults(Posts, twin.judgments))
                      = Ranking(aggregated)

\* The step of runFlywheel that follows a returned wave leaves behind what
\* LowStep computes from the wave's result.
LoopBodyIsLowStep ==
  (fpc = "judging" /\ wpc = "returned" /\ Len(iterations') = Len(iterations) + 1)
    => LowAfter = LowStep(judged)

\* C13: the overall score a judge reports never drives ranking or stopping.
\* Two runs whose valid judge answers differ only in the reported overallScore
\* (each in 1..100) go through the same states apart from the reported
\* scores: after every wave the loop body of runFlywheel yields the same
\* iteration score, stop reason, iteration count, bestIteration, final text
\* and feedback for the writer, and aggregateResults the same ranking.
C13_ReportedOverallNeverDrives == []TwinsAgree /\ [][LoopBodyIsLowStep]_vars

\* C13 witness: a refine run has returned after an iteration whose judges
\* reported an average other than the computed one, and after feedback
\* computed from such judgments went to the writer.
C13_Witness ==
  /\ fpc = "returned"
  /\ Len(iterations) >= 2
  /\ iterations[1].averageScore = FromInt(60)
  /\ iterations[1].averageScoreJudgeReported = FromInt(75)
  /\ feedback # NoFeedback
  /\ session.stoppedReason = "threshold"

\* ------------------------------------------------------------------ C14
RubricKeys == {CRITERIA_KEYS[k] : k \in DOMAIN CRITERIA_KEYS}

\* A scores list with exactly one entry per rubric key, no other entry, and
\* every score in [1,100].
OnePerKeyInRange(scores) ==
  /\ Len(scores) = Cardinality(RubricKeys)
  /\ \A k \in DOMAIN scores :
       /\ scores[k].criterion \in RubricKeys
       /\ scores[k].score >= 1
       /\ scores[k].score <= 100
  /\ \A c \in RubricKeys :
       Cardinality({k \in DOMAIN scores : scores[k].criterion = c}) = 1

\* The rubric key each entry of a JSON answer names ("null" for none).
NamedKeys(response) ==
  [k \in DOMAIN response.scores |-> normalizeCriterion(response.scores[k].criterion)]

\* A JSON answer whose scores would not make such a list: an entry outside
\* the rubric, a key named twice or not at all, a score that is not a number
\* in [1,100], or no scores array at all.
WouldViolate(response) ==
  /\ response.json
  /\ \/ ~response.scoresIsArray
     \/ \E k \in DOMAIN response.scores :
          \/ NamedKeys(response)[k] \notin RubricKeys
          \/ ~response.scores[k].scoreIsNumber
          \/ response.scores[k].score < 1
          \/ response.scores[k].score > 100
     \/ \E c \in RubricKeys :
          Cardinality({k \in DOMAIN response.scores : NamedKeys(response)[k] = c}) # 1

\* The messages of the errors validateAndNormalizeScores throws.
ValidationErrors ==
  {"scores must be an array", "unknown criterion", "duplicate criterion",
   "score must be a number", "score must be 1-100", "feedback must be a string",
   "missing criterion", "expected scores"}

\* C14: every JudgmentResult parseJudgmentResponse returns, called directly
\* or by judgePost (first answer or repaired answer), has exactly one scores
\* entry per rubric key, no other entry and every score in [1,100]; an
\* answer that would violate this is rejected with a validation error.
C14_ScoresOnePerKeyInRange ==
  /\ returnValue.done =>
       /\ returnValue.value.ok => OnePerKeyInRange(returnValue.value.result.scores)
       /\ WouldViolate(argument) =>
            /\ ~returnValue.value.ok
            /\ returnValue.value.error.msg \in ValidationErrors
  /\ \A k \in DOMAIN judged.judgments : OnePerKeyInRange(judged.judgments[k].scores)

\* C14 witness: an answer with a score of 101 and all keys named once was
\* rejected.
C14_Witness ==
  /\ returnValue.done
  /\ argument.json /\ argument.scoresIsArray
  /\ \A c \in RubricKeys :
       Cardinality({k \in DOMAIN argument.scores : NamedKeys(argument)[k] = c}) = 1
  /\ \E k \in DOMAIN argument.scores : argument.scores[k].score = 101
  /\ ~returnValue.value.ok
  /\ returnValue.value.error.msg = "score must be 1-100"

\* ------------------------------------------------------------------ C15
\* A JSON answer each of whose entries is valid by itself: a name of the
\* rubric, a number in [1,100], a feedback string.
EntriesValid(response) ==
  /\ response.json
  /\ response.scoresIsArray
  /\ \A k \in DOMAIN response.scores :
       /\ NamedKeys(response)[k] \in RubricKeys
       /\ response.scores[k].scoreIsNumber
       /\ response.scores[k].score >= 1
       /\ response.scores[k].score <= 100
       /\ response.scores[k].feedback # "none"

\* The rubric keys no entry names, and those two entries name.
Omitted(response) ==
  {c \in RubricKeys : \A k \in DOMAIN response.scores : NamedKeys(response)[k] # c}

Repeated(response) ==
  {c \in RubricKeys :
     Cardinality({k \in DOMAIN response.scores : NamedKeys(response)[k] = c}) > 1}

ScoreFor(scores, c) ==
  scores[CHOOSE k \in DOMAIN scores : scores[k].criterion = c].score

\* Sum of score x weight over the rubric divided by the sum of the weights.
WeightedMean(scores) ==
  Frac(ScoreFor(scores, "narrative") * CRITERIA_WEIGHTS.narrative
         + ScoreFor(scores, "structure") * CRITERIA_WEIGHTS.structure
         + ScoreFor(scores, "audienceFit") * CRITERIA_WEIGHTS.audienceFit
         + ScoreFor(scores, "accuracy") * CRITERIA_WEIGHTS.accuracy
         + ScoreFor(scores, "aiDetection") * CRITERIA_WEIGHTS.aiDetection,
       CRITERIA_WEIGHTS.narrative + CRITERIA_WEIGHTS.structure
         + CRITERIA_WEIGHTS.audienceFit + CRITERIA_WEIGHTS.accuracy
         + CRITERIA_WEIGHTS.aiDetection)

\* C17: the overallScoreComputed of a JudgmentResult parseJudgmentResponse
\* returns is computeOverallFromScores of its scores, which is the sum of
\* score x weight over the rubric divided by the sum of the weights; with the
\* weights 30, 20, 20, 15, 15 and the scores narrative 80, structure 70,
\* audienceFit 60, accuracy 90, aiDetection 50 it is exactly 71.
C17_OverallComputedIsWeightedMean ==
  (returnValue.done /\ returnValue.value.ok) =>
    \E r \in {returnValue.value.result} :
      /\ r.overallScoreComputed = computeOverallFromScores(r.scores)
      /\ r.overallScoreComputed = WeightedMean(r.scores)
      /\ (/\ CRITERIA_WEIGHTS = [narrative |-> 30, structure |-> 20,
                                 audienceFit |-> 20, accuracy |-> 15,
                                 aiDetection |-> 15]
          /\ ScoreFor(r.scores, "narrative") = 80
          /\ ScoreFor(r.scores, "structure") = 70
          /\ ScoreFor(r.scores, "audienceFit") = 60
          /\ ScoreFor(r.scores, "accuracy") = 90
          /\ ScoreFor(r.scores, "aiDetection") = 50)
           => r.overallScoreComputed = FromInt(71)

\* C17 witness: the answer with the scores 80, 70, 60, 90, 50 was parsed and
\* its overallScoreComputed is 71.
C17_Witness ==
  /\ returnValue.done
  /\ argument = RespMid
  /\ returnValue.value.ok
  /\ returnValue.value.result.overallScoreComputed = FromInt(71)
  /\ returnValue.value.result.overallScore = 70

\* ------------------------------------------------------------------ C16
\* A validated scores list: the five criteria once each, scores in [1,100].
ValidScores(scores) == OnePerKeyInRange(scores)

\* The entries of a valid scores list in the order of the rubric.
RubricOrder(scores) ==
  [k \in DOMAIN CRITERIA_KEYS |->
     scores[CHOOSE h \in DOMAIN scores : scores[h].criterion = CRITERIA_KEYS[k]]]

\* C16: for a valid scores list computeOverallFromScores returns the value it
\* returns for the same entries in the order of the rubric, hence the same
\* value for every permutation of the list, and the value is within [1,100].
C16_OverallOrderIndependentInRange ==
  (mode = "computeOverallFromScores" /\ returnValue.done /\ ValidScores(argument)) =>
    /\ returnValue.value = computeOverallFromScores(RubricOrder(argument))
    /\ FLe(FromInt(1), returnValue.value)
    /\ FLe(returnValue.value, FromInt(100))

\* C16 witness: a list that is not in rubric order, with unequal scores, has
\* been evaluated.
C16_Witness ==
  /\ mode = "computeOverallFromScores"
  /\ returnValue.done
  /\ ValidScores(argument)
  /\ argument[1].criterion = "aiDetection" /\ argument[1].score = 1
  /\ argument[5].criterion = "narrative" /\ argument[5].score = 100
  /\ returnValue.value = WeightedMean(argument)

\* ------------------------------------------------------------------ C18
RECURSIVE SumOfSet(_, _)
\* The sum of f[c] over the criteria in S.
SumOfSet(f, S) ==
  IF S = {} THEN FromInt(0)
  ELSE LET c == CHOOSE x \in S : TRUE
       IN  FAdd(f[c], SumOfSet(f, S \ {c}))

\* The weighted average of the values of the criteria in present alone: the
\* weighted sum over them divided by the sum of their weights.
PresentMean(valueOf, present) ==
  FDiv(SumOfSet([c \in RubricKeys |-> FMulInt(valueOf[c], CRITERIA_WEIGHTS[c])], present),
       SumOfSet([c \in RubricKeys |-> FromInt(CRITERIA_WEIGHTS[c])], present))

\* The criteria a scores list has an entry for.
PresentIn(scores) == {scores[k].criterion : k \in DOMAIN scores}

\* The criteria some judgment of the list scores, and the average of each
\* over the judgments that score it.
PresentAmong(judgments) ==
  UNION {PresentIn(judgments[k].scores) : k \in DOMAIN judgments}

AverageAmong(judgments, c) ==
  LET scoring == {k \in DOMAIN judgments : c \in PresentIn(judgments[k].scores)}
      RECURSIVE total(_)
      total(S) == IF S = {} THEN 0
                  ELSE LET k == CHOOSE x \in S : TRUE
                       IN  ScoreFor(judgments[k].scores, c) + total(S \ {k})
  IN  IF scoring = {} THEN FromInt(0) ELSE Frac(total(scoring), Cardinality(scoring))

\* C18: both aggregation formulas divide the weighted sum by the sum of the
\* weights of the criteria present in the input: a scores list that lacks a
\* criterion gets the weighted average of the criteria it has, from
\* computeOverallFromScores, and so do judgments that lack one, from
\* computeOverallFromJudgments and, per post, from aggregateResults.
C18_DividesByWeightsPresent ==
  returnValue.done =>
    /\ (mode = "computeOverallFromScores" /\ argument # <<>>) =>
         returnValue.value
           = PresentMean([c \in RubricKeys |-> FromInt(scoreOf(argument, c))],
                         PresentIn(argument))
    /\ (mode = "computeOverallFromJudgments" /\ PresentAmong(argument) # {}) =>
         returnValue.value
           = PresentMean([c \in RubricKeys |-> AverageAmong(argument, c)],
                         PresentAmong(argument))
    /\ mode = "aggregateResults" =>
         \A k \in DOMAIN returnValue.value :
           PresentAmong(returnValue.value[k].judgments) # {} =>
             returnValue.value[k].overallAverage
               = PresentMean([c \in RubricKeys |->
                                AverageAmong(returnValue.value[k].judgments, c)],
                             PresentAmong(returnValue.value[k].judgments))

\* ------------------------------------------------------------------ C19
ValidJudgments(judgments) ==
  \A k \in DOMAIN judgments : ValidScores(judgments[k].scores)

\* Each criterion averaged over the judgments first, then the weighted
\* average of the averaged criteria (0 for no judgments).
MeanOfAverages(judgments) ==
  IF Len(judgments) = 0 THEN FromInt(0)
  ELSE PresentMean([c \in RubricKeys |-> AverageAmong(judgments, c)], RubricKeys)

\* The judgments of the list that are about post.
JudgmentsAbout(judgments, post) ==
  SelectSeq(judgments, LAMBDA j : j.postModelId = post)

\* C19: for valid judgments computeOverallFromJudgments returns the weighted
\* average of the per-criterion averages over the judgments, and so does
\* aggregateResults as the overallAverage of each post over the judgments of
\* that post: the two agree.
C19_OverallIsMeanOfAverages ==
  returnValue.done =>
    /\ (mode = "computeOverallFromJudgments" /\ ValidJudgments(argument)) =>
         returnValue.value = MeanOfAverages(argument)
    /\ (mode = "aggregateResults" /\ ValidJudgments(argument.judgments)) =>
         \A k \in DOMAIN returnValue.value :
           \E r \in {returnValue.value[k]} :
             /\ r.judgments = JudgmentsAbout(argument.judgments, r.postModelId)
             /\ r.overallAverage = MeanOfAverages(r.judgments)
             /\ r.overallAverage = computeOverallFromJudgments(r.judgments)

\* C19 witness: aggregateResults was given the sheets 92, ..., 92 and
\* 80, 70, 60, 90, 50 for post 1 and one sheet for post 2, and post 1 has the
\* overallAverage 81.5.
C19_Witness ==
  /\ mode = "aggregateResults"
  /\ returnValue.done
  /\ ValidJudgments(argument.judgments)
  /\ Len(argument.judgments) = 3
  /\ \E k \in DOMAIN returnValue.value :
       /\ returnValue.value[k].postModelId = 1
       /\ Len(returnValue.value[k].judgments) = 2
       /\ returnValue.value[k].judgments[1].scores = Sheet(92, 92, 92, 92, 92)
       /\ returnValue.value[k].judgments[2].scores = Sheet(80, 70, 60, 90, 50)
       /\ returnValue.value[k].overallAverage = Frac(163, 2)

\* ------------------------------------------------------------------ C20
\* The judgments in the order p.
Permuted(judgments, p) == [k \in DOMAIN judgments |-> judgments[p[k]]]

\* C20: aggregation is order-independent: for any permutation of the input
\* judgment sequence computeOverallFromJudgments returns the same value, and
\* aggregateResults returns the same per-criterion averages, the same
\* overallAverage for every post and the same rank order of the posts.
C20_AggregationOrderIndependent ==
  returnValue.done =>
    /\ mode = "computeOverallFromJudgmentsDecimal" =>
         \A p \in Orders(Len(argument)) :
           computeOverallFromJudgmentsF64(Permuted(argument, p)) = returnValue.value
    /\ mode = "aggregateResultsDecimal" =>
         \A p \in Orders(Len(argument.judgments)) :
           Ranking(aggregateResultsF64(argument.posts,
                                       Permuted(argument.judgments, p)))
             = Ranking(returnValue.value)

\* ------------------------------------------------------------------ C21
\* The position of post in the posts aggregateResults was given.
InputPosition(post) == CHOOSE k \in DOMAIN argument.posts : argument.posts[k] = post

\* C21: aggregateResults returns exactly one result per input post, ordered
\* by non-increasing overallAverage, posts of equal overallAverage in their
\* input order; determineWinner returns the first of that ranking, whose
\* overallAverage no other result exceeds, and null (0) for zero results.
C21_RankingAndWinner ==
  (mode = "aggregateResults" /\ returnValue.done) =>
    \E ranking \in {returnValue.value} :
      /\ Len(ranking) = Len(argument.posts)
      /\ \A k \in DOMAIN argument.posts :
           Cardinality({h \in DOMAIN ranking :
                          ranking[h].postModelId = argument.posts[k]}) = 1
      /\ \A a, b \in DOMAIN ranking :
           a < b =>
             /\ FLe(ranking[b].overallAverage, ranking[a].overallAverage)
             /\ ranking[a].overallAverage = ranking[b].overallAverage =>
                  InputPosition(ranking[a].postModelId)
                    < InputPosition(ranking[b].postModelId)
      /\ "winner" \in DOMAIN returnValue =>
           IF Len(ranking) = 0 THEN returnValue.winner = 0
           ELSE /\ returnValue.winner = ranking[1].postModelId
                /\ \A h \in DOMAIN ranking :
                     FLe(ranking[h].overallAverage, ranking[1].overallAverage)

\* C21 witness: posts 2 and 1, in that order, were judged alike once each,
\* the ranking keeps 2 before 1 and the winner is post 2.
C21_Witness ==
  /\ mode = "aggregateResults"
  /\ returnValue.done
  /\ "winner" \in DOMAIN returnValue
  /\ argument.posts = <<2, 1>>
  /\ Len(argument.judgments) = 2
  /\ argument.judgments[1].postModelId # argument.judgments[2].postModelId
  /\ Len(returnValue.value) = 2
  /\ returnValue.value[1].overallAverage = returnValue.value[2].overallAverage
  /\ returnValue.value[1].overallAverage # FromInt(0)
  /\ returnValue.winner = 2

\* ------------------------------------------------------------------ C22
\* The judge tasks of the wave about post whose judge call succeeded.
Succeeded(post) == {t \in DOMAIN received : PostOf(t) = post /\ ~JudgeCallFailed(t)}

\* What aggregateResults gave a post is the aggregate of exactly the
\* judgments that succeeded for it: all zero when there is none.
AggregatedOverSuccesses ==
  (mode \in {"judgePostWithMultipleJudges", "judgeAllPosts"}
     /\ aggregated # NoAggregate) =>
    /\ Len(aggregated) = nPosts
    /\ \A k \in DOMAIN aggregated :
         \E r \in {aggregated[k]} :
           /\ r.judgments = JudgmentsAbout(judged.judgments, r.postModelId)
           /\ Len(r.judgments) = Cardinality(Succeeded(r.postModelId))
           /\ \A c \in RubricKeys : r.averageScores[c] = AverageAmong(r.judgments, c)
           /\ r.overallAverage = MeanOfAverages(r.judgments)
           /\ Succeeded(r.postModelId) = {} =>
                /\ \A c \in RubricKeys : r.averageScores[c] = FromInt(0)
                /\ r.overallAverage = FromInt(0)

\* Every iteration runFlywheel recorded holds the judgments and failures of
\* its wave, one entry per judge, and the score of the judgments alone: 0
\* when every judge failed.
IterationsScoredOverSuccesses ==
  mode \in FlyModes =>
    \A k \in DOMAIN iterations :
      /\ Len(iterations[k].judgments) + Len(iterations[k].judgeFailures) = nJudges
      /\ iterations[k].averageScore = MeanOfAverages(iterations[k].judgments)
      /\ iterations[k].judgments = <<>> => iterations[k].averageScore = FromInt(0)

\* A wave of runFlywheel in which every judge failed is recorded as the
\* iteration with score 0 and its failures, and the run goes on as the stop
\* policy says: it returns when the threshold or the patience condition
\* holds or the iterations are used up, and refines otherwise.
AllFailedWaveRecorded ==
  (mode \in FlyModes /\ fpc = "judging" /\ wpc = "returned"
     /\ judged.judgments = <<>>) =>
    /\ Len(iterations') = Len(iterations) + 1
    /\ SubSeq(iterations', 1, Len(iterations)) = iterations
    /\ \E it \in {iterations'[Len(iterations')]} :
         /\ it.iteration = i
         /\ it.averageScore = FromInt(0)
         /\ it.judgeFailures = judged.failures
         /\ Len(it.judgeFailures) = nJudges
    /\ fpc' \in {"refining", "returned"}
    /\ fpc' = "returned" <=>
         \/ ThresholdAt(iterations', i)
         \/ PatienceAt(iterations', i)
         \/ i >= opts.maxIterations

DigitValue ==
  [c \in {"0", "1", "2", "3", "4", "5", "6", "7", "8", "9"} |->
     CASE c = "0" -> 0 [] c = "1" -> 1 [] c = "2" -> 2 [] c = "3" -> 3 [] c = "4" -> 4
       [] c = "5" -> 5 [] c = "6" -> 6 [] c = "7" -> 7 [] c = "8" -> 8 [] c = "9" -> 9]

NamesInteger(text) ==
  LET body == IF text # <<>> /\ text[1] \in {"+", "-"} THEN Tail(text) ELSE text
  IN  body # <<>> /\ \A k \in DOMAIN body : body[k] \in DOMAIN DigitValue

RECURSIVE IntegerNamed(_)
IntegerNamed(text) ==
  IF text = <<>> THEN 0
  ELSE IF text[1] = "-" THEN 0 - IntegerNamed(Tail(text))
  ELSE IF text[1] = "+" THEN IntegerNamed(Tail(text))
  ELSE 10 * IntegerNamed(SubSeq(text, 1, Len(text) - 1)) + DigitValue[text[Len(text)]]

\* The text names an integer from lo on.
NamesIntegerFrom(text, lo) == NamesInteger(text) /\ IntegerNamed(text) >= lo

\* C23: every configuration error (an invalid concurrency ceiling, an empty
\* evaluator list, an out-of-range threshold or patience) is fatal where the
\* options are assembled and never silently replaced by a default value: an
\* invalid WRITEOFF_MAX_CONCURRENCY stops the run instead of becoming 5.
C23_ConfigErrorsFatal ==
  returnValue.done =>
    /\ (mode = "getMaxConcurrency" /\ argument.set /\ argument.text # <<>>
          /\ ~NamesIntegerFrom(argument.text, 1)) =>
         returnValue.value.threw
    /\ (mode = "createRefineCommand"
          /\ \/ argument.judges = 0
             \/ ~NamesIntegerFrom(argument.threshold, 1)
             \/ (NamesInteger(argument.threshold) /\ IntegerNamed(argument.threshold) > 100)
             \/ ~NamesIntegerFrom(argument.patience, 0)) =>
         returnValue.value.exit

\* ------------------------------------------------------------------ C24
\* The number is a positive integer.
PositiveInteger(c) == c.kind = "finite" /\ c.value.den = 1 /\ c.value.num >= 1

\* C24: pLimit(C) reports an error at construction for every C that is not a
\* positive integer (0, negative, non-finite, or fractional such as 1.5), so
\* that no limiter with an invalid ceiling exists to accept a task.
C24_InvalidCeilingRejectedAtConstruction ==
  (mode = "pLimit" /\ returnValue.done /\ ~PositiveInteger(argument)) =>
    returnValue.value.threw

\* ------------------------------------------------------------------ C27
\* The lines of the edits of the given types, in order.
LinesOf(edits, types) ==
  LET kept == SelectSeq(edits, LAMBDA e : e.type \in types)
  IN  [h \in DOMAIN kept |-> kept[h].line]

\* The length of a longest common subsequence of a and b.
RECURSIVE LCS(_, _)
LCS(a, b) ==
  IF a = <<>> \/ b = <<>> THEN 0
  ELSE IF Head(a) = Head(b) THEN 1 + LCS(Tail(a), Tail(b))
  ELSE LET left == LCS(Tail(a), b)
           right == LCS(a, Tail(b))
       IN  IF left > right THEN left ELSE right

\* C27: the edit script myersDiff(a, b) returns is valid and minimal: its
\* equal and delete lines, in order, are a; its equal and insert lines, in
\* order, are b; and it has |a| + |b| - 2 * LCS(a, b) inserts and deletes.
C27_MyersDiffValidAndMinimal ==
  (mode = "myersDiff" /\ returnValue.done) =>
    /\ \A h \in DOMAIN returnValue.value :
         returnValue.value[h].type \in {"equal", "insert", "delete"}
    /\ LinesOf(returnValue.value, {"equal", "delete"}) = argument.a
    /\ LinesOf(returnValue.value, {"equal", "insert"}) = argument.b
    /\ Len(LinesOf(returnValue.value, {"insert", "delete"}))
         = Len(argument.a) + Len(argument.b) - 2 * LCS(argument.a, argument.b)

\* A script with equal lines, inserts and deletes has been returned.
C27_Witness ==
  /\ mode = "myersDiff"
  /\ returnValue.done
  /\ \A t \in {"equal", "insert", "delete"} :
       \E h \in DOMAIN returnValue.value : returnValue.value[h].type = t
  /\ Len(argument.a) = MaxLines

\* ------------------------------------------------------------------ C26
\* The hunks a rendered diff holds: the numbers of each range line, a range
\* of one number being one line long, and the hunk lines that follow it.
HunksOf(patch) ==
  LET ranges == SelectSeq([h \in DOMAIN patch |-> h], LAMBDA h : patch[h].kind = "@@")
      startOf(range) == range[1]
      lenOf(range) == IF Len(range) = 1 THEN 1 ELSE range[2]
      endOf(r) == IF r < Len(ranges) THEN ranges[r + 1] - 1 ELSE Len(patch)
  IN  [r \in DOMAIN ranges |->
         [oldStart |-> startOf(patch[ranges[r]].old),
          oldLen |-> lenOf(patch[ranges[r]].old),
          newStart |-> startOf(patch[ranges[r]].new),
          newLen |-> lenOf(patch[ranges[r]].new),
          lines |-> SubSeq(patch, ranges[r] + 1, endOf(r))]]

\* C26: consecutive hunks of a unified diff cover disjoint, strictly
\* increasing line ranges of the old text and of the new text: each hunk
\* starts at or after the end of the one before it.
C26_HunksDisjointAndIncreasing ==
  (mode = "unifiedDiff" /\ returnValue.done) =>
    LET hunks == HunksOf(returnValue.value)
    IN  \A h \in 1 .. Len(hunks) - 1 :
          /\ hunks[h + 1].oldStart >= hunks[h].oldStart + hunks[h].oldLen
          /\ hunks[h + 1].newStart >= hunks[h].newStart + hunks[h].newLen

\* ------------------------------------------------------------------ C25
\* The text a rendered diff makes of the old text: each hunk, in order,
\* replaces the old lines of its old range, which must be its context and
\* deleted lines, by its context and inserted lines. A hunk that does not
\* fit the old text, or starts before the end of the one before it, is
\* rejected.
ApplyPatch(oldText, patch) ==
  LET hunks == HunksOf(patch)
      pick(lines, prefixes) ==
        LET kept == SelectSeq(lines, LAMBDA l : l.prefix \in prefixes)
        IN  [h \in DOMAIN kept |-> kept[h].line]
      RECURSIVE apply(_, _, _)
      \* the hunks from h on, the old lines before cursor being done already
      apply(h, cursor, text) ==
        IF h > Len(hunks)
          THEN [ok |-> TRUE, text |-> text \o SubSeq(oldText, cursor, Len(oldText))]
        ELSE LET hunk == hunks[h]
                 removed == pick(hunk.lines, {" ", "-"})
             IN  IF \/ hunk.oldStart < cursor
                    \/ Len(removed) # hunk.oldLen
                    \/ hunk.oldStart + hunk.oldLen - 1 > Len(oldText)
                    \/ SubSeq(oldText, hunk.oldStart, hunk.oldStart + hunk.oldLen - 1)
                         # removed
                   THEN [ok |-> FALSE, text |-> <<>>]
                   ELSE apply(h + 1, hunk.oldStart + hunk.oldLen,
                              text \o SubSeq(oldText, cursor, hunk.oldStart - 1)
                                   \o pick(hunk.lines, {" ", "+"}))
  IN  apply(1, 1, <<>>)

\* C25: unifiedDiff returns the empty string for texts with the same lines,
\* and for texts that differ, whatever the context, applying the hunks it
\* renders to the old text gives the new text.
C25_DiffRoundTrip ==
  (mode = "unifiedDiff" /\ returnValue.done) =>
    IF argument.oldText = argument.newText THEN returnValue.value = <<>>
    ELSE ApplyPatch(argument.oldText, returnValue.value)
           = [ok |-> TRUE, text |-> argument.newText]

\* ------------------------------------------------------------------ C28
\* The conditions generate retries on.
RetryableConditions == {"rate limit", "timeout", "network"}

\* What holds of generate at every point of a call.
GenerateBounded ==
  (mode = "generate" /\ returnValue # NoReturn) =>
    LET r == returnValue
        last == Len(r.failures)
    IN  /\ r.calls <= argument.maxRetries + 1
        \* a failure was followed by a sleep and another call only if its
        \* condition is retryable
        /\ \A h \in 1 .. last :
             (h < last \/ r.pc = "sleep") =>
               r.failures[h].condition \in RetryableConditions
        \* a failure that is not retryable ends the call at once
        /\ \A h \in 1 .. last :
             r.failures[h].condition \notin RetryableConditions =>
               h = last /\ r.pc = "threw"
        \* a retryable failure ends the call only after maxRetries retries
        /\ (r.pc = "threw" /\ last > 0
              /\ r.failures[last].condition \in RetryableConditions)
             => r.calls = argument.maxRetries + 1
        \* every call but the one under way has failed; the text returned
        \* is that of the first call that succeeded
        /\ r.pc \in {"generateText", "returned"} => last = r.calls - 1
        /\ r.pc \in {"sleep", "threw"} => last = r.calls
        /\ r.pc = "returned" => r.text = <<"text", last + 1>>
        \* the call ends with a text or with one error, never both
        /\ r.done <=> r.pc \in {"returned", "threw"}
        /\ ("text" \in DOMAIN r) <=> r.pc = "returned"
        /\ ("error" \in DOMAIN r) <=> r.pc = "threw"
        \* the sleep after k retries, k = 0, 1, ...
        /\ Len(r.slept) = (IF r.pc = "sleep" THEN r.attempt + 1 ELSE r.attempt)
        /\ \A k \in 0 .. Len(r.slept) - 1 :
             r.slept[k + 1] = (IF argument.maxMs < argument.baseMs * 2^k
                                 THEN argument.maxMs ELSE argument.baseMs * 2^k)

\* C28: generate retries a failed model call only on a rate limit, timeout
\* or network error, makes at most maxRetries + 1 attempts, fails after one
\* attempt on another error, returns the text of the first attempt that
\* succeeds, sleeps min(maxMs, baseMs * 2^k) (plus jitter) before the retry
\* that follows k earlier ones, and always ends with a text or one error.
C28_GenerateRetriesBounded ==
  /\ []GenerateBounded
  /\ <>(mode = "generate" /\ returnValue.done)

\* generate has returned a text after maxRetries retries, the last sleep
\* cut to maxMs.
C28_Witness ==
  /\ mode = "generate"
  /\ returnValue.done
  /\ returnValue.pc = "returned"
  /\ returnValue.calls = argument.maxRetries + 1
  /\ returnValue.slept[Len(returnValue.slept)] = argument.maxMs
  /\ returnValue.slept[1] = argument.baseMs

\* ------------------------------------------------------------------ C29
\* The iteration list is numbered 1, 2, ... and starts with the caller's
\* text; the session returned holds that list and that text.
IterationsNumbered ==
  mode \in FlyModes =>
    /\ \A k \in DOMAIN iterations : iterations[k].iteration = k
    /\ iterations # <<>> => iterations[1].post = 0
    /\ fpc = "returned" =>
         /\ session.iterations = iterations
         /\ session.originalPost = 0

\* A step leaves the iteration list alone or appends one iteration to it,
\* which only the continuation of runFlywheel after a wave does; the session
\* returned is never changed.
IterationsAppendOnly ==
  mode \in FlyModes =>
    /\ \/ iterations' = iterations
       \/ /\ Len(iterations') = Len(iterations) + 1
          /\ SubSeq(iterations', 1, Len(iterations)) = iterations
          /\ fpc = "judging"
          /\ wpc = "returned"
    /\ fpc = "returned" => session' = session

\* C29: the iteration list of a session is append-only and written by
\* runFlywheel alone: its k-th element has iteration index k, an iteration
\* once appended is never changed, iteration 1 holds the caller's text, and
\* originalPost is that text.
C29_IterationsAppendOnly ==
  []IterationsNumbered /\ [][IterationsAppendOnly]_vars

\* A session of three iterations has been returned, the later ones holding
\* refined texts.
C29_Witness ==
  /\ mode = "runFlywheel"
  /\ fpc = "returned"
  /\ Len(session.iterations) = 3
  /\ session.iterations[3].post # 0
  /\ session.originalPost = 0

\* ------------------------------------------------------------------ C30
\* C30: a session returned with stoppedReason threshold has a finalScore of
\* at least the threshold, whatever keepBest, minImprovement and patience.
C30_ThresholdStopMeetsThreshold ==
  (mode \in FlyModes /\ fpc = "returned" /\ session.stoppedReason = "threshold") =>
    FLe(FromInt(opts.threshold), session.finalScore)

\* ------------------------------------------------------------------ C31
\* C31: a session returned after at least one iteration has a bestIteration
\* between 1 and the number of iterations, the score of that iteration as
\* bestScore, a finalPost that is not null and the score of the iteration
\* with that text as finalScore; a session returned without any iteration
\* has no finalPost, finalScore 0 and bestIteration 0.
C31_SessionConsistent ==
  (mode \in FlyModes /\ fpc = "returned") =>
    LET its == session.iterations
        n == Len(its)
    IN  IF n > 0
          THEN /\ session.bestIteration \in 1 .. n
               /\ session.bestScore = its[session.bestIteration].averageScore
               /\ session.finalPost # -1
               /\ \E k \in 1 .. n : its[k].post = session.finalPost
               /\ \A k \in 1 .. n :
                    its[k].post = session.finalPost =>
                      session.finalScore = its[k].averageScore
          ELSE /\ session.finalPost = -1
               /\ session.finalScore = FromInt(0)
               /\ session.bestIteration = 0

\* A session of three iterations whose final text is not the last one has
\* been returned.
C31_Witness ==
  /\ mode \in FlyModes
  /\ fpc = "returned"
  /\ Len(session.iterations) = 3
  /\ session.bestIteration = 2
  /\ session.finalPost = session.iterations[2].post

\* A session without iterations has been returned.
C31_WitnessNoIteration ==
  /\ mode \in FlyModes
  /\ fpc = "returned"
  /\ opts.maxIterations = 0
  /\ session.iterations = <<>>

\* ------------------------------------------------------------------ C32
\* C32: with minImprovement = 0 the session returned has the highest score
\* of its iterations as bestScore and an iteration with that score as
\* bestIteration, so that with keepBest no iteration scores above
\* finalScore.
C32_BestIsMaximum ==
  (mode \in FlyModes /\ fpc = "returned" /\ opts.minImprovement = 0
     /\ session.iterations # <<>>) =>
    LET its == session.iterations
    IN  /\ \A k \in DOMAIN its : FLe(its[k].averageScore, session.bestScore)
        /\ session.bestIteration \in DOMAIN its
        /\ its[session.bestIteration].averageScore = session.bestScore
        /\ opts.keepBest =>
             \A k \in DOMAIN its : FLe(its[k].averageScore, session.finalScore)

\* With keepBest and minImprovement 0 a session of four iterations has been
\* returned whose best iteration is neither the first nor the last.
C32_Witness ==
  /\ mode \in FlyModes
  /\ fpc = "returned"
  /\ opts.minImprovement = 0
  /\ opts.keepBest
  /\ Len(session.iterations) = 4
  /\ session.bestIteration = 2
  /\ FLt(session.iterations[4].averageScore, session.finalScore)

\* ------------------------------------------------------------------ C33
\* Request k to the writer passes the text of iteration k, and the text of
\* iteration k + 1 is the one the writer returned to request k; a run that
\* has returned made one request less than it ran iterations.
RefinesChained ==
  mode \in FlyModes =>
    /\ Len(refined) <= Len(iterations)
    /\ \A k \in DOMAIN refined : refined[k] = iterations[k].post
    /\ \A k \in DOMAIN iterations : k > 1 => iterations[k].post = k - 1
    /\ fpc = "returned" =>
         Len(refined) = (IF iterations = <<>> THEN 0 ELSE Len(iterations) - 1)

\* A step that calls refinePost does so for the iteration it has just
\* appended, which is not the maxIterations-th, has not reached the
\* threshold and has not exhausted the patience.
RefineOnlyToContinue ==
  (mode \in FlyModes /\ refined' # refined) =>
    /\ Len(iterations') = Len(iterations) + 1
    /\ refined' = Append(refined, iterations'[Len(iterations')].post)
    /\ Len(refined') = Len(iterations')
    /\ Len(iterations') < opts.maxIterations
    /\ FLt(iterations'[Len(iterations')].averageScore, FromInt(opts.threshold))
    /\ opts.patience = 0 \/ nonImprovingCount' < opts.patience
    /\ fpc' = "refining"
    /\ stoppedReason' = "max_iterations"

\* C33: a run of runFlywheel that returns has asked the writer for one
\* refinement less than it ran iterations: none after the iteration that
\* stops the run, and each of the text of the iteration just judged, whose
\* result is the text of the next iteration.
C33_RefinesBetweenIterations ==
  []RefinesChained /\ [][RefineOnlyToContinue]_vars

\* A run of three iterations has stopped for lack of improvement before
\* maxIterations, after two requests to the writer, with the first
\* iteration the best one.
C33_Witness ==
  /\ mode = "runFlywheelOneJudge"
  /\ fpc = "returned"
  /\ opts.maxIterations = 4
  /\ session.stoppedReason = "no_improvement"
  /\ Len(iterations) = 3
  /\ refined = <<0, 1>>
  /\ session.bestIteration = 1

\* ------------------------------------------------------------------ C34
\* C34: judgePost asks for a repair exactly when its first model call
\* returned a text that is not a valid judgment: a first call that fails
\* gives a failure without a repair, a valid first answer gives no second
\* call, a judgment obtained by repair carries the warning 'Repaired invalid
\* judge output' (and no other judgment does), and a task makes at most two
\* model calls.
C34_RepairIffInvalidFirstAnswer ==
  mode \in WaveModes =>
    \A t \in DOMAIN received :
      LET calls == received[t]
          settled == fnResult[t] # Pending
      IN  /\ Len(calls) <= 2
          /\ jstep[t] = "call2" <=>
               (Len(calls) >= 1 /\ calls[1] \in InvalidAnswers)
          /\ Len(calls) = 2 => (calls[1] \in InvalidAnswers /\ settled)
          /\ settled =>
               /\ Len(calls) = (IF calls[1] \in InvalidAnswers THEN 2 ELSE 1)
               /\ fnResult[t].state = "fulfilled"
               /\ calls[1] = "error" => ~fnResult[t].value.ok
               /\ fnResult[t].value.ok =>
                    LET warnings == fnResult[t].value.result.parseWarnings
                    IN  (Len(calls) = 2) <=>
                          \E w \in DOMAIN warnings : warnings[w] = RepairedWarning

\* A wave in which one task has a judgment by repair, one a judgment from
\* its first answer and one a failure of its first call.
C34_Witness ==
  /\ mode = "judgeAllPosts"
  /\ \A t \in DOMAIN received : fnResult[t] # Pending
  /\ \E a, b, c \in DOMAIN received :
       /\ received[a] = <<"missing", "high">> /\ fnResult[a].value.ok
       /\ received[b] = <<"mid">> /\ fnResult[b].value.ok
       /\ received[c] = <<"error">> /\ ~fnResult[c].value.ok


\* ---- C35 ---------------------------------------------------------------
\* The positions of the progress log where task t reported a status.
ReportsOf(t, statuses) ==
  {k \in DOMAIN progress : progress[k].task = t /\ progress[k].status \in statuses}

\* The tasks that reported 'start' and no 'done' or 'error' yet.
ReportedInFlight ==
  {t \in DOMAIN phase : ReportsOf(t, {"start"}) # {} /\ ReportsOf(t, {"done", "error"}) = {}}

SubmissionIndex(x) == (x.postModelId - 1) * nJudges + x.judgeModelId

\* The position at which task t reported its end.
EndOf(t) == CHOOSE k \in DOMAIN progress :
              progress[k].task = t /\ progress[k].status \in {"done", "error"}

\* C36: the judgments a wave returns, and its failures, are in submission
\* order whatever the order in which the tasks ended, and they are the
\* results of exactly the tasks that ended with one.
C36_ResultsInSubmissionOrder ==
  (mode \in {"judgePostWithMultipleJudges", "judgeAllPosts"} /\ wpc = "returned") =>
    /\ \A a, b \in DOMAIN judged.judgments :
         a < b => SubmissionIndex(judged.judgments[a]) < SubmissionIndex(judged.judgments[b])
    /\ \A a, b \in DOMAIN judged.failures :
         a < b => SubmissionIndex(judged.failures[a]) < SubmissionIndex(judged.failures[b])
    /\ \A k \in DOMAIN judged.judgments :
         LET t == SubmissionIndex(judged.judgments[k])
         IN  t \in DOMAIN fnResult /\ fnResult[t].value.ok
               /\ fnResult[t].value.result = judged.judgments[k]
    /\ \A k \in DOMAIN judged.failures :
         LET t == SubmissionIndex(judged.failures[k])
         IN  t \in DOMAIN fnResult /\ ~fnResult[t].value.ok
               /\ fnResult[t].value.failure = judged.failures[k]
    /\ Len(judged.judgments) + Len(judged.failures) = Len(fnResult)

\* A wave has returned two judgments and a failure; the task of the first
\* judgment was the last to end.
C36_Witness ==
  /\ mode \in {"judgePostWithMultipleJudges", "judgeAllPosts"}
  /\ argument = [onProgress |-> TRUE]
  /\ wpc = "returned"
  /\ Len(judged.judgments) = 2
  /\ Len(judged.failures) = 1
  /\ EndOf(SubmissionIndex(judged.judgments[2])) < EndOf(SubmissionIndex(judged.judgments[1]))
  /\ EndOf(SubmissionIndex(judged.failures[1])) < EndOf(SubmissionIndex(judged.judgments[1]))


\* ---- C37 ---------------------------------------------------------------
\* The tasks whose chain fn().then(resolve, reject).finally(next) was started
\* by run() and has not settled: fn's promise is pending, or one of the two
\* reactions is still to run.
Unsettled == {t \in DOMAIN phase : phase[t] \in {"running", "settled", "resolved"}}

\* C37: activeCount is the number of started tasks whose chain has not
\* settled, and never negative; while a task waits in the queue there are
\* exactly `concurrency` of them; and when every submitted task has settled
\* activeCount is 0 and the queue is empty.
C37_CounterExactAndWorkConserving ==
  mode = "limit" =>
    /\ activeCount = Cardinality(Unsettled)
    /\ activeCount >= 0
    /\ queue # <<>> => Cardinality(Unsettled) = concurrency
    /\ (\A k \in DOMAIN submitted : phase[submitted[k]] = "released") =>
         activeCount = 0 /\ queue = <<>>

\* Two tasks of a limiter with ceiling 2 hold its slots while two others wait,
\* after a first task gave its slot to the third.
C37_Witness ==
  /\ mode = "limit"
  /\ concurrency = 2
  /\ activeCount = 2
  /\ Len(queue) = 2
  /\ phase[1] = "released"
  /\ phase[3] = "running"
  /\ phase[2] = "resolved"

\* Every task was submitted, some waited, and all have settled.
C37_WitnessAllSettled ==
  /\ mode = "limit"
  /\ Len(submitted) = MaxTasks
  /\ waited # {}
  /\ \A t \in Tasks : phase[t] = "released"
  /\ activeCount = 0
  /\ queue = <<>>


\* ---- C38 ---------------------------------------------------------------
\* A judgment that scores each of the five rubric keys exactly once.
Complete(j) ==
  /\ Len(j.scores) = Len(CRITERIA_KEYS)
  /\ \A n \in DOMAIN CRITERIA_KEYS :
       Cardinality({k \in DOMAIN j.scores : j.scores[k].criterion = CRITERIA_KEYS[n]}) = 1

RECURSIVE SumOfOveralls(_, _)
\* The sum of overallScoreComputed over the first n judgments.
SumOfOveralls(judgments, n) ==
  IF n = 0 THEN FromInt(0)
  ELSE FAdd(SumOfOveralls(judgments, n - 1), judgments[n].overallScoreComputed)

\* The arithmetic mean of the overallScoreComputed of the judgments.
MeanOfOveralls(judgments) ==
  FDiv(SumOfOveralls(judgments, Len(judgments)), FromInt(Len(judgments)))

RefineFailed == writer # <<>> /\ ~writer[Len(writer)]

\* C39: runFlywheel ends with an error exactly when a refinePost call has
\* failed, whatever the judges did: a wave never throws; the failed call
\* leaves no session and no stop reason behind, and nothing of the run
\* happens after it.
C39_OnlyRefineFailurePropagates ==
  /\ [](mode \in FlyModes =>
          /\ wpc # "threw"
          /\ fpc = "threw" <=> RefineFailed
          /\ RefineFailed =>
               /\ session = NoSession
               /\ stoppedReason = "max_iterations"
               /\ Len(writer) = Len(iterations))
  /\ [][~(mode \in FlyModes /\ RefineFailed)]_vars

\* The second refinePost call of a run failed, after a first iteration in
\* which a judge failed and a second in which every judge did.
C39_Witness ==
  /\ mode = "runFlywheel"
  /\ fpc = "threw"
  /\ writer = <<TRUE, FALSE>>
  /\ Len(iterations) = 2
  /\ Len(iterations[1].judgeFailures) = 1
  /\ iterations[2].judgments = <<>>
  /\ session = NoSession

====
